---- MODULE Spec2Model ----
(***************************************************************************)
(* State-machine model of the td-secret collaboration backend:             *)
(*   - the chat session registry and connection handshake,                 *)
(*   - the distributed lock and the idempotent message producer,           *)
(*   - the per-job in-process message task queue,                          *)
(*   - the media room engine (join / produce / leave / active speakers).   *)
(* Every asynchronous handler is split at its awaits: one action per       *)
(* segment that runs without yielding to the event loop.                   *)
(***************************************************************************)
EXTENDS Integers, Sequences, FiniteSets, TLC

\* ------------------------------------------------------------------------
\* Bounds
\* ------------------------------------------------------------------------
NumSockets == 3

None == 0

\* ------------------------------------------------------------------------
\* State
\* ------------------------------------------------------------------------
VARIABLES
    userSockets,   \* Redis set  user:sockets:{u}
    socketUser,    \* Redis key  socket:user:{s}  (None when absent)
    connected,     \* socket.connected
    hPc,           \* position of handleConnection(socket)
    hList,         \* socketIds still to evict in the handshake's for-loop
    hCur,          \* socket id the loop is currently unmapping
    hUser,         \* userId read by unmapSocket inside the loop
    hExisting,     \* existingSocketIds read by mapUserToSocket
    dPc,           \* position of handleDisconnect(socket)
    dUser,         \* userId read by unmapSocket in handleDisconnect
    hEarlier,      \* same-user sockets that were connected when the socket connected
    authenticated, \* socket.data.authenticated
    noSub,         \* the verified token of the socket had no sub claim (user.sub is undefined)
    authTimer,     \* socket.data.authTimeout is armed
    elapsed,       \* AUTH_TIMEOUT_MS have passed since the socket connected
    timeoutSent    \* number of error:auth AUTH_TIMEOUT emissions to the socket

sessionVars == <<userSockets, socketUser, connected, hPc, hList, hCur, hUser,
                 hExisting, dPc, dUser, hEarlier, authenticated, noSub, authTimer,
                 elapsed, timeoutSent>>

authVars == <<authenticated, noSub, authTimer, elapsed, timeoutSent>>

VARIABLES
    lockHolder,    \* Redis key lock:{jobId}: the send whose lease it is, or None
    lockAborted,   \* signal.aborted of the send's redlock.using() call
    sPc,           \* position of handleContractMessageSend
    sMsg,          \* payload.id
    sJob,          \* payload.jobId
    sVariant,      \* "with" (ChatGateway, withLock) or "try" (MessagingGateway, tryWithLock)
    sAck,          \* acknowledgement returned to the sender
    idem,          \* Redis key msg:idem:{id}: TRUE while present
    bullJobs,      \* ids of the jobs held by the BullMQ queue
    newCount,      \* number of contract:message.new broadcasts per message id
    freshCount,    \* number of queueMessage calls that returned isDuplicate = false
    sOp,           \* the event handled: message.send, pin, unpin or read
    emitCount,     \* number of pinned / unpinned / read broadcasts
    sAfter,        \* the send repeats one acknowledged with success, its key still set
    ackedOk        \* <<id, jobId>> of the sends acknowledged with success

msgVars == <<lockHolder, lockAborted, sPc, sMsg, sJob, sVariant, sAck, idem,
             bullJobs, newCount, freshCount, sOp, emitCount, sAfter,
             ackedOk>>

VARIABLES
    qMap,          \* MessageTaskQueueManager.queues: jobId -> queue object (None: no entry)
    qSweeping,     \* the cleanup interval of the manager is armed
    qMade,         \* number of JobMessageQueue objects constructed so far
    qJob,          \* jobId a queue object was constructed for
    qItems,        \* JobMessageQueue.queue: waiting tasks, head first
    qProcessing,   \* JobMessageQueue.processing
    qCurrent,      \* the task processNext is awaiting (None when there is none)
    qLast,         \* JobMessageQueue.lastProcessedTimestamp
    tMade,         \* number of tasks enqueued so far (task ids are arrival order)
    tJob,          \* jobId the task was enqueued under
    tTs,           \* timestamp the task was enqueued with
    tState         \* "new", "waiting", "running", "settled" (resolve or reject called)

queueVars == <<qMap, qSweeping, qMade, qJob, qItems, qProcessing, qCurrent,
               qLast, tMade, tJob, tTs, tState>>

VARIABLES
    rooms,             \* RoomService.rooms.get(roomId): the registered Room object (None: no entry)
    rMade,             \* number of Room objects constructed so far
    router,            \* Room.router (None: null)
    activeSpeakerObserver, \* Room.activeSpeakerObserver (None: null); observer k lives on router k
    routerOpen,        \* the routers created on the worker and not closed
    observerOpen,      \* the active-speaker observers created and not closed
    handled,           \* the observers that carry the 'dominantspeaker' handler
    refreshTimer,      \* Room.refreshTimer is armed
    clients,           \* Room.clients: how many times each peer occurs in the array
    activeSpeakerList, \* Room.activeSpeakerList
    engineRuns,        \* updateActiveSpeakers runs of the room that have begun and not returned
    cRoom,             \* Client.room (None: null)
    upstreamTransport, \* Client.upstreamTransport: the router it was created on (None: null)
    audio,             \* Client.producer.audio: a producer id (None: undefined)
    pMade,             \* number of producers created so far
    pOwner,            \* the peer on whose transport the producer was created
    pRouter,           \* the router of that transport
    pState,            \* "none", "open", "closed"
    pObserver,         \* the observer the producer was added to (None: none)
    jPc,               \* handleJoinRoom of the peer: "idle", "r1", "o1", "r2", "o2"
    jRoom,             \* its requestedRoom
    lPc,               \* handleLeaveRoom of the peer: "idle", "stt", "bcast"
    lRoom,             \* its room
    lPids,             \* its producerIds
    tPc,               \* handleTransportRequest of the peer: "idle", "creating"
    wTransports,       \* WorkerRecord.transports of the worker the room's routers live on
    wRouters,          \* WorkerRecord.routers of that worker
    rPassword,         \* Room.roomSecure.password (NoPassword: '')
    jError,            \* the socket's latest joinRoom was answered 'Invalid room password'
    npToggle,          \* flips with every newParticipant broadcast
    emittedUnlocked,   \* an updateActiveSpeakers / newProducersToConsume emission was made outside withLock(roomId)
    tExtra,            \* a second handleTransportRequest of the peer awaits its transport
    tCounted,          \* incTransports(+1) calls made for the peer since its last leave
    tRouter,           \* the router its createWebRtcTransport was issued on
    pPc                \* handleStartProducing of the peer: "idle", "producing", "dead", "stt"

roomVars == <<rooms, rMade, router, activeSpeakerObserver, routerOpen, observerOpen,
              handled, refreshTimer, clients, activeSpeakerList, engineRuns, cRoom,
              upstreamTransport, audio, pMade, pOwner, pRouter, pState, pObserver,
              jPc, jRoom, lPc, lRoom, lPids, tPc, tRouter, pPc, wTransports, wRouters,
              tExtra, tCounted, rPassword, jError, npToggle,
              emittedUnlocked>>

VARIABLES
    availablePorts,    \* StreamingSTTService.availablePorts
    usedPorts,         \* StreamingSTTService.usedPorts
    rtpSessions,       \* StreamingSTTService.rtpSessions.has(participantId)
    sessRtp,           \* rtpPort of the registered RTPSession (None: no session)
    sessRtcp,          \* rtcpPort of the registered RTPSession
    listening,         \* the session's segmenter process has bound its two ports
    stPc,              \* position of startTranscription(participant)
    stSorted,          \* sortedPorts: the snapshot getAvailablePortPair iterates over
    stI,               \* loop index i of getAvailablePortPair (1-based)
    stOk1,             \* isPort1Available
    stRtp,             \* rtpPort returned to the start call
    stRtcp,            \* rtcpPort returned to the start call
    spPc,              \* position of a stopTranscription call
    spWho,             \* participantId of the stop call
    spRtp,             \* session.rtpPort of the session object the stop call read
    spRtcp,            \* session.rtcpPort of the session object the stop call read
    spStale,           \* an earlier stop call already deleted the session this call read
    orphanPorts        \* ports bound by segmenters whose session entry was deleted unkilled

tapVars == <<availablePorts, usedPorts, rtpSessions, sessRtp, sessRtcp, listening,
             stPc, stSorted, stI, stOk1, stRtp, stRtcp, spPc, spWho, spRtp, spRtcp,
             spStale, orphanPorts>>

VARIABLES
    segListed,             \* number of lines of the participant's segment list file
    lastProcessedSegment,  \* RTPSession.lastProcessedSegment
    processingSegments,    \* RTPSession.processingSegments
    handed,                \* how often processWithWhisper was called per segment index
    fePc,                  \* position of a handleFileEvent call
    feWho,                 \* participantId parsed from the file name
    feLines,               \* number of lines the call read from the list file
    feSeg                  \* segmentIndex the call is awaiting the worker for

segVars == <<segListed, lastProcessedSegment, processingSegments, handed, fePc,
             feWho, feLines, feSeg>>

VARIABLES
    members,             \* Room.clients of the room the engine runs on
    hasRoom,             \* the clients whose client.room is set
    producer,            \* Client.producer[kind] holds an open producer
    speakerList,         \* Room.activeSpeakerList of that room
    associatedAudioPid,  \* DownstreamTransport.associatedAudioPid (None: no transport)
    associatedVideoPid,  \* DownstreamTransport.associatedVideoPid
    consumer,            \* downstreamTransport[kind]: producerId of the consumer stored there
    consumerPaused,      \* consumer.paused
    runPc,               \* position of updateActiveSpeakers
    enginePaused,        \* media kinds of the objects updateActiveSpeakers has paused
    newTransportsByPeer, \* newSpeakers the run in progress collected per client (its result map)
    closedConsumer,      \* downstreamTransport[kind] holds a closed consumer: its producerId
    calledClosed,        \* pause() or resume() was invoked on a closed producer or consumer
    lastDominant         \* ds.producer.id of the latest dominantspeaker event recorded (None: none)

engVars == <<members, hasRoom, producer, speakerList,
             associatedAudioPid, associatedVideoPid, consumer, consumerPaused,
             runPc, enginePaused, newTransportsByPeer, closedConsumer,
             calledClosed, lastDominant>>

\* One client's transports and its connectTransport calls
VARIABLES
    ctExists,            \* role -> client.upstreamTransport / a downstream transport is set
    dtlsState,           \* role -> transport.dtlsState
    workerConnected,     \* role -> the worker holds DTLS parameters for the transport
    connectCalls,        \* role -> calls of transport.connect so far
    ctPc,                \* call -> position of a connectTransport call
    ctRole               \* call -> role named by the call

ctVars == <<ctExists, dtlsState, workerConnected, connectCalls, ctPc, ctRole>>

\* The mediasoup workers of WorkerManagerService
VARIABLES
    wOnline,             \* WorkerRecord.online of the record in the slot
    wScore,              \* WorkerRecord.score (NoScore: undefined)
    wLast,               \* WorkerRecord.last is set
    picked,              \* the record the latest pick returned (None: it threw)
    pickTick             \* flips with every pickWorkerForRoom / pickLeastLoaded call

wkVars == <<wOnline, wScore, wLast, picked, pickTick>>

extVars == <<tapVars, segVars, engVars, ctVars, wkVars>>

vars == <<sessionVars, msgVars, queueVars, roomVars, extVars>>

\* ------------------------------------------------------------------------
\* Chat session registry (Redis) and connection supervisor
\* ------------------------------------------------------------------------
Sockets == 1..NumSockets

\* Two principals
Users == {1, 2}

\* The text "undefined": what a template string makes of a missing sub
UndefinedSub == 3

\* The user ids that occur in registry keys
SubKeys == Users \cup {UndefinedSub}

\* The handshake tokens: absent, failing jwt.verify, verified with a sub
\* claim, verified without one
Tokens == {"missing", "invalid", "sub", "nosub"}

\* The tokens socket s may present: socket 2 any of them, the two sockets of
\* user 1 a verified token with a sub claim
TokensOf(s) == IF s = 2 THEN Tokens ELSE {"sub"}

\* validateJwt: valid, and user.sub as a registry key, for socket s
SubFor(s, tok) == IF tok = "nosub" THEN UndefinedSub ELSE IF s = 2 THEN 2 ELSE 1

ValidateJwt(tok) == tok \in {"sub", "nosub"}

\* result.user.sub of the authenticated socket s
SubOf(s) == SubFor(s, IF noSub[s] THEN "nosub" ELSE "sub")

\* A handleConnection that clears the timer on the success branch only
TimerKeptOnFailure(valid) == ~valid

\* clearTimeout(timeout) runs on the failure branch and on the success
\* branch of handleConnection: the timer is not left armed
TimerLeftArmed(valid) == FALSE

SessionInit ==
    /\ userSockets = [u \in SubKeys |-> {}]
    /\ socketUser = [s \in Sockets |-> None]
    /\ connected = [s \in Sockets |-> FALSE]
    /\ hPc = [s \in Sockets |-> "none"]
    /\ hList = [s \in Sockets |-> {}]
    /\ hCur = [s \in Sockets |-> None]
    /\ hUser = [s \in Sockets |-> None]
    /\ hExisting = [s \in Sockets |-> {}]
    /\ dPc = [s \in Sockets |-> "none"]
    /\ dUser = [s \in Sockets |-> None]
    /\ hEarlier = [s \in Sockets |-> {}]
    /\ authenticated = [s \in Sockets |-> FALSE]
    /\ noSub = [s \in Sockets |-> FALSE]
    /\ authTimer = [s \in Sockets |-> FALSE]
    /\ elapsed = [s \in Sockets |-> FALSE]
    /\ timeoutSent = [s \in Sockets |-> 0]

\* socket.disconnect(true) / disconnectSockets(true): the socket closes and
\* the framework schedules handleDisconnect for it (once).
DisconnectEffect(conn, pc, s) ==
    IF conn[s] THEN <<[conn EXCEPT ![s] = FALSE], [pc EXCEPT ![s] = "get"]>>
               ELSE <<conn, pc>>

\* The sockets of user u that are connected when socket s connects
EarlierSockets(s, u) ==
    {x \in Sockets \ {s} : SubOf(x) = u /\ connected[x]}

\* handleConnection up to the first Redis await: the auth timer is armed,
\* the token is extracted and validated (validateJwt has no await of its
\* own, so no timer runs in between). Invalid: the timer is cleared,
\* error:auth AUTH_FAILED is emitted and the socket is disconnected. Valid:
\* the timer is cleared, the user is attached, the socket is marked
\* authenticated and getSocketIdsByUser is issued.
Connect(s) ==
    /\ hPc[s] = "none"
    /\ ~connected[s]
    /\ dPc[s] = "none"
    /\ \E tok \in TokensOf(s) :
        /\ authTimer' = [authTimer EXCEPT ![s] = TimerLeftArmed(ValidateJwt(tok))]
        /\ IF ValidateJwt(tok)
              THEN /\ connected' = [connected EXCEPT ![s] = TRUE]
                   /\ authenticated' = [authenticated EXCEPT ![s] = TRUE]
                   /\ noSub' = [noSub EXCEPT ![s] = tok = "nosub"]
                   /\ hPc' = [hPc EXCEPT ![s] = "read"]
                   /\ hEarlier' = [hEarlier EXCEPT ![s] = EarlierSockets(s, SubFor(s, tok))]
                   /\ UNCHANGED dPc
              ELSE /\ dPc' = [dPc EXCEPT ![s] = "get"]
                   /\ hPc' = [hPc EXCEPT ![s] = "done"]
                   /\ UNCHANGED <<connected, authenticated, noSub, hEarlier>>
    /\ UNCHANGED <<userSockets, socketUser, hList, hCur, hUser, hExisting, dUser,
                   elapsed, timeoutSent>>
    /\ UNCHANGED <<msgVars, queueVars, roomVars, extVars>>

\* getSocketIdsByUser: SMEMBERS user:sockets:{sub}
HsReadSockets(s) ==
    /\ hPc[s] = "read"
    /\ hList' = [hList EXCEPT ![s] = userSockets[SubOf(s)]]
    /\ hPc' = [hPc EXCEPT ![s] = "loop"]
    /\ UNCHANGED <<userSockets, socketUser, connected, hCur, hUser, hExisting, dPc, dUser>>
    /\ UNCHANGED <<hEarlier, authVars, msgVars, queueVars, roomVars, extVars>>

\* for (const socketId of socketIds): unmapSocket(socketId) issues GET
HsUnmapGet(s) ==
    /\ hPc[s] = "loop"
    /\ hList[s] # {}
    /\ \E sid \in hList[s] :
        /\ hList' = [hList EXCEPT ![s] = @ \ {sid}]
        /\ hCur' = [hCur EXCEPT ![s] = sid]
        /\ hUser' = [hUser EXCEPT ![s] = socketUser[sid]]
    /\ hPc' = [hPc EXCEPT ![s] = "unmap"]
    /\ UNCHANGED <<userSockets, socketUser, connected, hExisting, dPc, dUser>>
    /\ UNCHANGED <<hEarlier, authVars, msgVars, queueVars, roomVars, extVars>>

\* unmapSocket: if (!userId) return; else MULTI SREM + DEL; then the loop
\* body calls disconnectSockets(true) on the stale socket id.
HsUnmapExec(s) ==
    /\ hPc[s] = "unmap"
    /\ LET sid == hCur[s]
           u == hUser[s]
           d == DisconnectEffect(connected, dPc, sid)
       IN /\ IF u # None
                THEN /\ userSockets' = [userSockets EXCEPT ![u] = @ \ {sid}]
                     /\ socketUser' = [socketUser EXCEPT ![sid] = None]
                ELSE UNCHANGED <<userSockets, socketUser>>
          /\ connected' = d[1]
          /\ dPc' = d[2]
    /\ hCur' = [hCur EXCEPT ![s] = None]
    /\ hUser' = [hUser EXCEPT ![s] = None]
    /\ hPc' = [hPc EXCEPT ![s] = "loop"]
    /\ UNCHANGED <<hList, hExisting, dUser>>
    /\ UNCHANGED <<hEarlier, authVars, msgVars, queueVars, roomVars, extVars>>

\* mapUserToSocket: SMEMBERS user:sockets:{sub} (outside the MULTI)
HsMapRead(s) ==
    /\ hPc[s] = "loop"
    /\ hList[s] = {}
    /\ hExisting' = [hExisting EXCEPT ![s] = userSockets[SubOf(s)]]
    /\ hPc' = [hPc EXCEPT ![s] = "map"]
    /\ UNCHANGED <<userSockets, socketUser, connected, hList, hCur, hUser, dPc, dUser>>
    /\ UNCHANGED <<hEarlier, authVars, msgVars, queueVars, roomVars, extVars>>

\* mapUserToSocket: the MULTI built from the earlier read is executed
MapExecSockets(cur, existing, s) == (cur \ (existing \ {s})) \cup {s}

HsMapExec(s) ==
    /\ hPc[s] = "map"
    /\ LET u == SubOf(s) IN
        /\ userSockets' = [userSockets EXCEPT
                              ![u] = MapExecSockets(@, hExisting[s], s)]
        /\ socketUser' = [x \in Sockets |->
                              IF x = s THEN u
                              ELSE IF x \in hExisting[s] THEN None
                              ELSE socketUser[x]]
    /\ hExisting' = [hExisting EXCEPT ![s] = {}]
    /\ hPc' = [hPc EXCEPT ![s] = "rooms"]
    /\ UNCHANGED <<connected, hList, hCur, hUser, dPc, dUser>>
    /\ UNCHANGED <<hEarlier, authVars, msgVars, queueVars, roomVars, extVars>>

\* getUserJobs + addUserRooms + joinRooms: either succeeds, or throws and the
\* catch block disconnects the socket.
HsRooms(s) ==
    /\ hPc[s] = "rooms"
    /\ \E okFetch \in BOOLEAN :
        LET d == IF okFetch THEN <<connected, dPc>>
                            ELSE DisconnectEffect(connected, dPc, s)
        IN /\ connected' = d[1]
           /\ dPc' = d[2]
    /\ hPc' = [hPc EXCEPT ![s] = "done"]
    /\ UNCHANGED <<userSockets, socketUser, hList, hCur, hUser, hExisting, dUser>>
    /\ UNCHANGED <<hEarlier, authVars, msgVars, queueVars, roomVars, extVars>>

\* The peer (or the network) closes the socket.
ClientDisconnect(s) ==
    /\ connected[s]
    /\ LET d == DisconnectEffect(connected, dPc, s) IN
        /\ connected' = d[1]
        /\ dPc' = d[2]
    /\ UNCHANGED <<userSockets, socketUser, hPc, hList, hCur, hUser, hExisting, dUser>>
    /\ UNCHANGED <<hEarlier, authVars, msgVars, queueVars, roomVars, extVars>>

\* handleDisconnect -> unmapSocket(socket.id): GET socket:user:{s}
DiscGet(s) ==
    /\ dPc[s] = "get"
    /\ dUser' = [dUser EXCEPT ![s] = socketUser[s]]
    /\ dPc' = [dPc EXCEPT ![s] = IF socketUser[s] = None THEN "done" ELSE "exec"]
    /\ authTimer' = [authTimer EXCEPT ![s] = FALSE]
    /\ UNCHANGED <<userSockets, socketUser, connected, hPc, hList, hCur, hUser, hExisting>>
    /\ UNCHANGED <<hEarlier, authenticated, noSub, elapsed, timeoutSent>>
    /\ UNCHANGED <<msgVars, queueVars, roomVars, extVars>>

\* handleDisconnect -> unmapSocket: MULTI SREM + DEL
DiscExec(s) ==
    /\ dPc[s] = "exec"
    /\ userSockets' = [userSockets EXCEPT ![dUser[s]] = @ \ {s}]
    /\ socketUser' = [socketUser EXCEPT ![s] = None]
    /\ dUser' = [dUser EXCEPT ![s] = None]
    /\ dPc' = [dPc EXCEPT ![s] = "done"]
    /\ UNCHANGED <<connected, hPc, hList, hCur, hUser, hExisting>>
    /\ UNCHANGED <<hEarlier, authVars, msgVars, queueVars, roomVars, extVars>>

\* ------------------------------------------------------------------------
\* Distributed lock (Redlock) and the chat message.send handler
\* ------------------------------------------------------------------------
NumSends == 3

\* Handlers that are between their arrival and their return at one time
MaxInFlight == 2

NumMsgs == 2

NumJobs == 2

Sends == 1..NumSends

Msgs == 1..NumMsgs

Jobs == 1..NumJobs

\* The events the gateways handle under the jobId lock
Ops == {"send", "pin", "unpin", "read"}

MsgInit ==
    /\ lockHolder = [j \in Jobs |-> None]
    /\ lockAborted = [s \in Sends |-> FALSE]
    /\ sPc = [s \in Sends |-> "idle"]
    /\ sMsg = [s \in Sends |-> None]
    /\ sJob = [s \in Sends |-> None]
    /\ sVariant = [s \in Sends |-> "with"]
    /\ sAck = [s \in Sends |-> "none"]
    /\ idem = [m \in Msgs |-> FALSE]
    /\ bullJobs = {}
    /\ newCount = [m \in Msgs |-> 0]
    /\ freshCount = [m \in Msgs |-> 0]
    /\ sOp = [s \in Sends |-> "send"]
    /\ emitCount = 0
    /\ sAfter = [s \in Sends |-> FALSE]
    /\ ackedOk = {}

\* The positions at which the task passed to withLock / tryWithLock runs
TaskRunning == {"get", "add", "setex"}

\* A contract:message.send with id m and jobId j is identical to one that
\* was acknowledged with success, and msg:idem:{m} is still set
RepeatsAcknowledged(m, j) ==
    /\ idem[m]
    /\ <<m, j>> \in ackedOk

\* The handler has returned: what remains of the call is its acknowledgement
\* only; its event, payload and lock signal are gone
ReturnedMsg(s) == [sMsg EXCEPT ![s] = None]

ReturnedJob(s) == [sJob EXCEPT ![s] = None]

ReturnedSignal(s) == [lockAborted EXCEPT ![s] = FALSE]

ReturnedOp(s) == [sOp EXCEPT ![s] = "send"]

\* A contract:message.send, pin, unpin or read event arrives: payload
\* validation, then the lock request. One gateway class is registered, so
\* every event is handled by the same variant
SendStart(s) ==
    /\ sPc[s] = "idle"
    /\ \A t \in Sends : t < s => sPc[t] # "idle"
    /\ Cardinality({t \in Sends : sPc[t] \notin {"idle", "done"}}) < MaxInFlight
    /\ \E m \in Msgs, j \in Jobs \cup {None}, v \in {"with", "try"}, o \in Ops :
        /\ \A t \in Sends : sPc[t] # "idle" => sVariant[t] = v
        /\ sVariant' = [sVariant EXCEPT ![s] = v]
        /\ sOp' = IF j = None THEN sOp ELSE [sOp EXCEPT ![s] = o]
        /\ sAfter' = [sAfter EXCEPT ![s] = o = "send" /\ RepeatsAcknowledged(m, j)]
        /\ IF j = None
              THEN /\ sPc' = [sPc EXCEPT ![s] = "done"]
                   /\ sAck' = [sAck EXCEPT ![s] = "jobId is required"]
                   /\ UNCHANGED <<sMsg, sJob>>
              ELSE /\ sPc' = [sPc EXCEPT ![s] = "acquire"]
                   /\ sMsg' = [sMsg EXCEPT ![s] = m]
                   /\ sJob' = [sJob EXCEPT ![s] = j]
                   /\ UNCHANGED sAck
    /\ UNCHANGED <<lockHolder, lockAborted, idem, bullJobs, newCount, freshCount>>
    /\ UNCHANGED <<emitCount, ackedOk>>
    /\ UNCHANGED <<sessionVars, queueVars, roomVars, extVars>>

\* redlock.acquire / redlock.using: SET lock:{jobId} NX PX 10000 succeeds
AcquireLease(holder, j, s) == [holder EXCEPT ![j] = s]

LockAcquire(s) ==
    /\ sPc[s] = "acquire"
    /\ lockHolder[sJob[s]] = None
    /\ lockHolder' = AcquireLease(lockHolder, sJob[s], s)
    /\ sPc' = [sPc EXCEPT ![s] = IF sOp[s] = "send" THEN "get" ELSE "emit"]
    /\ UNCHANGED <<lockAborted, sMsg, sJob, sVariant, sAck, idem, bullJobs, newCount, freshCount>>
    /\ UNCHANGED <<sOp, emitCount, sAfter, ackedOk>>
    /\ UNCHANGED <<sessionVars, queueVars, roomVars, extVars>>

\* An acknowledgement that is not the one tryWithLock's null leads to
BusyAckLockError(v) == "lock error"

\* tryWithLock returned null: err('RESOURCE_BUSY'); withLock threw
BusyAck(v) == IF v = "try" THEN "RESOURCE_BUSY" ELSE "lock error"

\* The resource is locked: tryWithLock (retryCount 0) returns null at once,
\* withLock gives up when its 10 retries are used up.
LockBusy(s) ==
    /\ sPc[s] = "acquire"
    /\ lockHolder[sJob[s]] # None
    /\ sPc' = [sPc EXCEPT ![s] = "done"]
    /\ sAck' = [sAck EXCEPT ![s] = BusyAck(sVariant[s])]
    /\ sMsg' = ReturnedMsg(s)
    /\ sJob' = ReturnedJob(s)
    /\ sOp' = ReturnedOp(s)
    /\ UNCHANGED <<lockHolder, lockAborted, sVariant, idem, bullJobs, newCount, freshCount>>
    /\ UNCHANGED <<emitCount, sAfter, ackedOk>>
    /\ UNCHANGED <<sessionVars, queueVars, roomVars, extVars>>

\* A queueMessage that never finds the idempotency key
NeverDuplicate(m) == FALSE

\* queueMessage: redis.get(msg:idem:{id}) returns a value
IsDuplicate(m) == idem[m]

\* queueMessage: GET msg:idem:{id}; a hit returns isDuplicate = true
QmGet(s) ==
    /\ sPc[s] = "get"
    /\ IF IsDuplicate(sMsg[s])
          THEN /\ sPc' = [sPc EXCEPT ![s] = "release"]
               /\ sAck' = [sAck EXCEPT ![s] = "duplicate"]
          ELSE /\ sPc' = [sPc EXCEPT ![s] = "add"]
               /\ UNCHANGED sAck
    /\ UNCHANGED <<lockHolder, lockAborted, sMsg, sJob, sVariant, idem, bullJobs, newCount, freshCount>>
    /\ UNCHANGED <<sOp, emitCount, sAfter, ackedOk>>
    /\ UNCHANGED <<sessionVars, queueVars, roomVars, extVars>>

\* queueMessage: queue.add with jobId = data.id (an existing job id is not
\* added again, the call still resolves with that job)
QmAdd(s) ==
    /\ sPc[s] = "add"
    /\ bullJobs' = bullJobs \cup {sMsg[s]}
    /\ sPc' = [sPc EXCEPT ![s] = "setex"]
    /\ UNCHANGED <<lockHolder, lockAborted, sMsg, sJob, sVariant, sAck, idem, newCount, freshCount>>
    /\ UNCHANGED <<sOp, emitCount, sAfter, ackedOk>>
    /\ UNCHANGED <<sessionVars, queueVars, roomVars, extVars>>

\* queueMessage: SETEX msg:idem:{id}, return isDuplicate = false; the handler
\* then emits contract:message.new and returns the success ack.
QmSetex(s) ==
    /\ sPc[s] = "setex"
    /\ idem' = [idem EXCEPT ![sMsg[s]] = TRUE]
    /\ freshCount' = [freshCount EXCEPT ![sMsg[s]] = @ + 1]
    /\ newCount' = [newCount EXCEPT ![sMsg[s]] = @ + 1]
    /\ sAck' = [sAck EXCEPT ![s] = "success"]
    /\ sPc' = [sPc EXCEPT ![s] = "release"]
    /\ UNCHANGED <<lockHolder, lockAborted, sMsg, sJob, sVariant, bullJobs>>
    /\ UNCHANGED <<sOp, emitCount, sAfter, ackedOk>>
    /\ UNCHANGED <<sessionVars, queueVars, roomVars, extVars>>

\* handleMessagePin / Unpin / Read: the lock reply has arrived; the task
\* emits the event to the room and returns ok, without an await
OpEmit(s) ==
    /\ sPc[s] = "emit"
    /\ emitCount' = emitCount + 1
    /\ sAck' = [sAck EXCEPT ![s] = "ok"]
    /\ sPc' = [sPc EXCEPT ![s] = "release"]
    /\ UNCHANGED <<lockHolder, lockAborted, sMsg, sJob, sVariant, idem, bullJobs,
                   newCount, freshCount, sOp, sAfter, ackedOk>>
    /\ UNCHANGED <<sessionVars, queueVars, roomVars, extVars>>

\* lock.release(): the key is deleted only when it still holds this lease.
\* tryWithLock logs a failed release and returns the task's result; in
\* using() the release of a lease that is gone may reject, and the
\* rejection replaces the task's result
LockRelease(s) ==
    /\ sPc[s] = "release"
    /\ lockHolder' = IF lockHolder[sJob[s]] = s
                        THEN [lockHolder EXCEPT ![sJob[s]] = None]
                        ELSE lockHolder
    /\ sPc' = [sPc EXCEPT ![s] = "done"]
    /\ \E a \in {sAck[s]} \cup (IF sVariant[s] = "with" /\ lockHolder[sJob[s]] # s
                                  THEN {"lock error"} ELSE {}) :
          /\ sAck' = [sAck EXCEPT ![s] = a]
          /\ ackedOk' = IF a = "success" THEN ackedOk \cup {<<sMsg[s], sJob[s]>>}
                                        ELSE ackedOk
    /\ sMsg' = ReturnedMsg(s)
    /\ sJob' = ReturnedJob(s)
    /\ lockAborted' = ReturnedSignal(s)
    /\ sOp' = ReturnedOp(s)
    /\ UNCHANGED <<sVariant, idem, bullJobs, newCount, freshCount>>
    /\ UNCHANGED <<emitCount, sAfter>>
    /\ UNCHANGED <<sessionVars, queueVars, roomVars, extVars>>

\* The automatic extension of redlock.using() (500 ms before expiry) fails:
\* signal.aborted is set; the routine is not interrupted, it was only asked
\* about the signal once, before task() was called.
ExtensionFails(s) ==
    /\ sPc[s] \in TaskRunning
    /\ sVariant[s] = "with"
    /\ lockHolder[sJob[s]] = s
    /\ ~lockAborted[s]
    /\ lockAborted' = [lockAborted EXCEPT ![s] = TRUE]
    /\ UNCHANGED <<lockHolder, sPc, sMsg, sJob, sVariant, sAck, idem, bullJobs, newCount, freshCount>>
    /\ UNCHANGED <<sOp, emitCount, sAfter, ackedOk>>
    /\ UNCHANGED <<sessionVars, queueVars, roomVars, extVars>>

\* The 10 s lease runs out in the store: a using() lease after its extension
\* failed, an acquire() lease (tryWithLock) because nothing extends it.
LeaseExpires(j) ==
    /\ lockHolder[j] # None
    /\ LET s == lockHolder[j] IN sVariant[s] = "try" \/ lockAborted[s]
    /\ lockHolder' = [lockHolder EXCEPT ![j] = None]
    /\ UNCHANGED <<lockAborted, sPc, sMsg, sJob, sVariant, sAck, idem, bullJobs, newCount, freshCount>>
    /\ UNCHANGED <<sOp, emitCount, sAfter, ackedOk>>
    /\ UNCHANGED <<sessionVars, queueVars, roomVars, extVars>>

\* The idempotency key reaches its TTL (IDEMPOTENCY_TTL seconds)
IdemExpires(m) ==
    /\ idem[m]
    /\ idem' = [idem EXCEPT ![m] = FALSE]
    /\ sAfter' = [s \in Sends |-> sAfter[s] /\ ~(sMsg[s] = m /\ sPc[s] # "done")]
    /\ UNCHANGED <<lockHolder, lockAborted, sPc, sMsg, sJob, sVariant, sAck, bullJobs, newCount, freshCount>>
    /\ UNCHANGED <<sOp, emitCount, ackedOk>>
    /\ UNCHANGED <<sessionVars, queueVars, roomVars, extVars>>

MsgNext ==
    \/ \E s \in Sends :
        \/ SendStart(s)
        \/ LockAcquire(s)
        \/ LockBusy(s)
        \/ QmGet(s)
        \/ QmAdd(s)
        \/ QmSetex(s)
        \/ OpEmit(s)
        \/ LockRelease(s)
        \/ ExtensionFails(s)
    \/ \E j \in Jobs : LeaseExpires(j)
    \/ \E m \in Msgs : IdemExpires(m)

\* ------------------------------------------------------------------------
\* In-process message task queue, partitioned by jobId
\* ------------------------------------------------------------------------
NumTasks == 3

MaxTs == 2

Tasks == 1..NumTasks

\* Every JobMessageQueue object is constructed by an enqueue
QueueIds == 1..NumTasks

Timestamps == 1..MaxTs

QueueInit ==
    /\ qMap = [j \in Jobs |-> None]
    /\ qSweeping = TRUE
    /\ qMade = 0
    /\ qJob = [q \in QueueIds |-> None]
    /\ qItems = [q \in QueueIds |-> <<>>]
    /\ qProcessing = [q \in QueueIds |-> FALSE]
    /\ qCurrent = [q \in QueueIds |-> None]
    /\ qLast = [q \in QueueIds |-> 0]
    /\ tMade = 0
    /\ tJob = [t \in Tasks |-> None]
    /\ tTs = [t \in Tasks |-> 0]
    /\ tState = [t \in Tasks |-> "new"]

\* Array.prototype.sort with (a, b) => a.timestamp - b.timestamp is stable:
\* insertion sort that keeps equal timestamps in their previous order.
InsertStable(sorted, x, ts) ==
    LET k == Cardinality({i \in 1..Len(sorted) : ts[sorted[i]] <= ts[x]})
    IN SubSeq(sorted, 1, k) \o <<x>> \o SubSeq(sorted, k + 1, Len(sorted))

RECURSIVE SortByTs(_, _)
SortByTs(seq, ts) ==
    IF seq = <<>> THEN <<>>
    ELSE InsertStable(SortByTs(SubSeq(seq, 1, Len(seq) - 1), ts), seq[Len(seq)], ts)

PushOnly(items, t, ts) == Append(items, t)

\* JobMessageQueue.enqueue: queue.push(...); queue.sort(by timestamp)
EnqueueItems(items, t, ts) == SortByTs(Append(items, t), ts)

\* JobMessageQueue.processNext up to its await: returns the queue fields and
\* the task it started (None when it returned early).
ProcessNext(items, processing, current) ==
    IF processing \/ items = <<>>
       THEN [items |-> items, processing |-> processing, current |-> current,
             ran |-> None]
       ELSE [items |-> Tail(items), processing |-> TRUE, current |-> Head(items),
             ran |-> Head(items)]

Max(a, b) == IF a >= b THEN a ELSE b

\* jobIds are opaque map keys: the callers' first jobId is 1, and a jobId
\* not seen before is the next number
JobsUsed == Cardinality({qJob[q] : q \in 1..qMade})

\* MessageTaskQueueManager.enqueue(jobId, timestamp, task)
Enqueue(j, ts) ==
    /\ tMade < NumTasks
    /\ j <= JobsUsed + 1
    /\ LET t == tMade + 1
           fresh == qMap[j] = None
           q == IF fresh THEN qMade + 1 ELSE qMap[j]
           tsNew == [tTs EXCEPT ![t] = ts]
           r == ProcessNext(EnqueueItems(qItems[q], t, tsNew), qProcessing[q],
                            qCurrent[q])
       IN /\ tMade' = t
          /\ tJob' = [tJob EXCEPT ![t] = j]
          /\ tTs' = tsNew
          /\ qMade' = IF fresh THEN qMade + 1 ELSE qMade
          /\ qMap' = [qMap EXCEPT ![j] = q]
          /\ qJob' = [qJob EXCEPT ![q] = j]
          /\ qItems' = [qItems EXCEPT ![q] = r.items]
          /\ qProcessing' = [qProcessing EXCEPT ![q] = r.processing]
          /\ qCurrent' = [qCurrent EXCEPT ![q] = r.current]
          /\ tState' = [x \in Tasks |->
                           IF x = r.ran THEN "running"
                           ELSE IF x = t THEN "waiting" ELSE tState[x]]
    /\ UNCHANGED <<qSweeping, qLast>>
    /\ UNCHANGED <<sessionVars, msgVars, roomVars, extVars>>

\* processNext resumes after `await task()`: the task resolved or threw; the
\* finally block clears `processing` and calls processNext again. The item
\* of the finished task is dropped with its jobId and timestamp.
TaskFinish(q) ==
    /\ qCurrent[q] # None
    /\ \E ok \in BOOLEAN :
        LET t == qCurrent[q]
            r == ProcessNext(qItems[q], FALSE, None)
        IN /\ qLast' = IF ok THEN [qLast EXCEPT ![q] = Max(@, tTs[t])] ELSE qLast
           /\ qItems' = [qItems EXCEPT ![q] = r.items]
           /\ qProcessing' = [qProcessing EXCEPT ![q] = r.processing]
           /\ qCurrent' = [qCurrent EXCEPT ![q] = r.current]
           /\ tState' = [x \in Tasks |->
                            IF x = t THEN "settled"
                            ELSE IF x = r.ran THEN "running" ELSE tState[x]]
           /\ tJob' = [tJob EXCEPT ![t] = None]
           /\ tTs' = [tTs EXCEPT ![t] = 0]
    /\ UNCHANGED <<qMap, qSweeping, qMade, qJob, tMade>>
    /\ UNCHANGED <<sessionVars, msgVars, roomVars, extVars>>

\* A removeJob that also empties the removed queue object
RemoveJobClearing(j) ==
    /\ qMap[j] # None
    /\ qMap' = [qMap EXCEPT ![j] = None]
    /\ qItems' = [qItems EXCEPT ![qMap[j]] = <<>>]
    /\ UNCHANGED <<qSweeping, qMade, qJob, qProcessing, qCurrent, qLast,
                   tMade, tJob, tTs, tState>>
    /\ UNCHANGED <<sessionVars, msgVars, roomVars, extVars>>

\* MessageTaskQueueManager.removeJob(jobId)
RemoveJob(j) ==
    /\ qMap[j] # None
    /\ qMap' = [qMap EXCEPT ![j] = None]
    /\ UNCHANGED <<qSweeping, qMade, qJob, qItems, qProcessing, qCurrent, qLast,
                   tMade, tJob, tTs, tState>>
    /\ UNCHANGED <<sessionVars, msgVars, roomVars, extVars>>

\* cleanupIdleQueues: the jobs whose queue is empty and not processing; each
\* of them passes the third test, now - lastActivity > IDLE_TIMEOUT_MS, when
\* enough time has gone by since its last enqueue
IdleJobs ==
    {j \in Jobs : /\ qMap[j] # None
                  /\ Len(qItems[qMap[j]]) = 0
                  /\ ~qProcessing[qMap[j]]}

\* The cleanup interval fires: cleanupIdleQueues deletes the idle jobs, `old`
\* being the jobs whose last activity is older than the timeout
IdleSweep ==
    /\ qSweeping
    /\ \E old \in SUBSET IdleJobs :
        /\ old # {}
        /\ qMap' = [j \in Jobs |-> IF j \in old THEN None ELSE qMap[j]]
    /\ UNCHANGED <<qSweeping, qMade, qJob, qItems, qProcessing, qCurrent, qLast,
                   tMade, tJob, tTs, tState>>
    /\ UNCHANGED <<sessionVars, msgVars, roomVars, extVars>>

\* MessageTaskQueueManager.destroy()
Destroy ==
    /\ qSweeping
    /\ qSweeping' = FALSE
    /\ qMap' = [j \in Jobs |-> None]
    /\ UNCHANGED <<qMade, qJob, qItems, qProcessing, qCurrent, qLast,
                   tMade, tJob, tTs, tState>>
    /\ UNCHANGED <<sessionVars, msgVars, roomVars, extVars>>

QueueNext ==
    \/ \E j \in Jobs, ts \in Timestamps : Enqueue(j, ts)
    \/ \E q \in QueueIds : TaskFinish(q)
    \/ \E j \in Jobs : RemoveJob(j)
    \/ IdleSweep
    \/ Destroy

\* ------------------------------------------------------------------------
\* Media rooms: StreamingGateway / StreamingService / RoomService / Room /
\* Client, for one roomId. Room objects are numbered in construction order.
\* ------------------------------------------------------------------------
NumPeers == 2

NumRooms == 1

\* Room objects constructed for the roomId after the first NumRooms were removed
MaxRecreated == 1

NumProducers == 1

MaxCopies == 2

MaxRuns == 2

Peers == 1..NumPeers

Rooms == 1..(NumRooms + MaxRecreated)

Producers == 1..NumProducers

\* handleJoinRoom calls createRouter twice for the Room it constructs
\* (initializeRoom, then again): the i-th router created for room object o
RouterOf(o, i) == 2 * (o - 1) + i

Routers == 1..(2 * (NumRooms + MaxRecreated))

RoomOf(r) == (r + 1) \div 2

roomObjVars == <<rooms, rMade, router, activeSpeakerObserver, routerOpen,
                 observerOpen, handled, refreshTimer>>

mediaVars == <<upstreamTransport, audio, pMade, pOwner, pRouter, pState, pObserver>>

joinVars == <<jPc, jRoom>>

leaveVars == <<lPc, lRoom, lPids>>

transportVars == <<tPc, tRouter>>

workerVars == <<wTransports, wRouters, tExtra, tCounted>>

secureVars == <<rPassword, jError, npToggle>>

\* Cap on the worker's transports counter
MaxTransports == 3

\* Number of distinct room passwords
NumPasswords == 2

\* The empty password '' of a room created without one
NoPassword == 0

Passwords == 1..NumPasswords

\* incTransports: w.transports = Math.max(0, w.transports + delta)
IncTransports(n, delta) == IF n + delta < 0 THEN 0 ELSE n + delta

\* incRouters: w.routers = Math.max(0, w.routers + delta)
IncRouters(n, delta) == IF n + delta < 0 THEN 0 ELSE n + delta

RoomInit ==
    /\ rooms = None
    /\ rMade = 0
    /\ router = [o \in Rooms |-> None]
    /\ activeSpeakerObserver = [o \in Rooms |-> None]
    /\ routerOpen = {}
    /\ observerOpen = {}
    /\ handled = {}
    /\ refreshTimer = [o \in Rooms |-> FALSE]
    /\ clients = [o \in Rooms |-> [c \in Peers |-> 0]]
    /\ activeSpeakerList = [o \in Rooms |-> <<>>]
    /\ engineRuns = [o \in Rooms |-> 0]
    /\ cRoom = [c \in Peers |-> None]
    /\ upstreamTransport = [c \in Peers |-> None]
    /\ audio = [c \in Peers |-> None]
    /\ pMade = 0
    /\ pOwner = [p \in Producers |-> None]
    /\ pRouter = [p \in Producers |-> None]
    /\ pState = [p \in Producers |-> "none"]
    /\ pObserver = [p \in Producers |-> None]
    /\ jPc = [c \in Peers |-> "idle"]
    /\ jRoom = [c \in Peers |-> None]
    /\ lPc = [c \in Peers |-> "idle"]
    /\ lRoom = [c \in Peers |-> None]
    /\ lPids = [c \in Peers |-> {}]
    /\ tPc = [c \in Peers |-> "idle"]
    /\ tRouter = [c \in Peers |-> None]
    /\ pPc = [c \in Peers |-> "idle"]
    /\ wTransports = 0
    /\ wRouters = 0
    /\ tExtra = [c \in Peers |-> FALSE]
    /\ rPassword = [o \in Rooms |-> NoPassword]
    /\ jError = [c \in Peers |-> FALSE]
    /\ npToggle = FALSE
    /\ emittedUnlocked = FALSE
    /\ tCounted = [c \in Peers |-> 0]

\* room.clients.length === 0, for a clients array cl
NoClients(cl) == \A c \in Peers : cl[c] = 0

\* Room.cleanup: the router it closes and the observers that close with it
CleanupRouters(o) == IF router[o] = None THEN {} ELSE {router[o]}

CleanupObservers(o) ==
    CleanupRouters(o) \cup
        (IF activeSpeakerObserver[o] = None THEN {} ELSE {activeSpeakerObserver[o]})

\* Producers after the routers rts were closed and Client.cleanup ran for the
\* peers cs: closing a router or a transport closes the producers on it
ProducersAfter(rts, cs) ==
    [p \in Producers |->
        IF pState[p] = "open" /\ (pRouter[p] \in rts \/ pOwner[p] \in cs)
           THEN "closed" ELSE pState[p]]

\* A closed producer is on no router and in no observer any more
RoutersAfter(states) ==
    [p \in Producers |-> IF states[p] = "closed" THEN None ELSE pRouter[p]]

ObserversAfter(states) ==
    [p \in Producers |-> IF states[p] = "closed" THEN None ELSE pObserver[p]]

\* A produce() still awaited loses its transport in the same way
ProducingAfter(rts, cs) ==
    [c \in Peers |->
        IF pPc[c] = "producing" /\ (c \in cs \/ upstreamTransport[c] \in rts)
           THEN "dead" ELSE pPc[c]]

\* The client of a socket emits joinRoom, requestTransport and startProducing
\* with an acknowledgement callback and emits the next of them from that
\* callback: none of these three handlers is pending for the socket
NoRequestPending(c) == jPc[c] = "idle" /\ tPc[c] = "idle" /\ pPc[c] = "idle"

\* A test that refuses only a request that carries no password
AbsentRefused(o, pw) == rPassword[o] # NoPassword /\ pw = NoPassword

\* The password test of handleJoinRoom on a room that existed before the
\* call: the room has a password and it differs from the one presented
PasswordRefused(o, pw) == rPassword[o] # NoPassword /\ rPassword[o] # pw

\* handleJoinRoom up to its first await, with the password pw of the request
\* (NoPassword: none). No room under the id: one is created with that
\* password and registered. An existing room: a refused password returns
\* the error; otherwise the ban test passes (the black list is never
\* written), no other client has this userId (it is a fresh UUID per
\* socket), the client is added and newParticipant is broadcast.
JoinWith(c, pw) ==
    /\ NoRequestPending(c)
    /\ IF rooms = None
          THEN /\ rMade < NumRooms
               /\ rooms' = rMade + 1
               /\ rMade' = rMade + 1
               /\ rPassword' = [rPassword EXCEPT ![rMade + 1] = pw]
               /\ jPc' = [jPc EXCEPT ![c] = "r1"]
               /\ jRoom' = [jRoom EXCEPT ![c] = rMade + 1]
               /\ jError' = [jError EXCEPT ![c] = FALSE]
               /\ UNCHANGED <<cRoom, clients, npToggle>>
          ELSE IF PasswordRefused(rooms, pw)
          THEN /\ jError' = [jError EXCEPT ![c] = TRUE]
               /\ UNCHANGED <<rooms, rMade, jPc, jRoom, cRoom, clients, rPassword,
                              npToggle>>
          ELSE /\ clients[rooms][c] < MaxCopies
               /\ cRoom' = [cRoom EXCEPT ![c] = rooms]
               /\ clients' = [clients EXCEPT ![rooms][c] = @ + 1]
               /\ npToggle' = ~npToggle
               /\ jError' = [jError EXCEPT ![c] = FALSE]
               /\ UNCHANGED <<rooms, rMade, jPc, jRoom, rPassword>>
    /\ UNCHANGED <<router, activeSpeakerObserver, routerOpen, observerOpen, handled,
                   refreshTimer, activeSpeakerList, engineRuns, mediaVars, leaveVars,
                   transportVars, pPc>>
    /\ UNCHANGED <<workerVars, emittedUnlocked, sessionVars, msgVars, queueVars, extVars>>

\* joinRoom for the roomId after its earlier Room objects were removed from
\* the registry: a further Room object is constructed and registered
JoinRecreate(c) ==
    /\ NoRequestPending(c)
    /\ rooms = None
    /\ rMade >= NumRooms
    /\ rMade < NumRooms + MaxRecreated
    /\ rooms' = rMade + 1
    /\ rMade' = rMade + 1
    /\ rPassword' = [rPassword EXCEPT ![rMade + 1] = NoPassword]
    /\ jPc' = [jPc EXCEPT ![c] = "r1"]
    /\ jRoom' = [jRoom EXCEPT ![c] = rMade + 1]
    /\ jError' = [jError EXCEPT ![c] = FALSE]
    /\ UNCHANGED <<cRoom, clients, npToggle>>
    /\ UNCHANGED <<router, activeSpeakerObserver, routerOpen, observerOpen, handled,
                   refreshTimer, activeSpeakerList, engineRuns, mediaVars, leaveVars,
                   transportVars, pPc>>
    /\ UNCHANGED <<workerVars, emittedUnlocked, sessionVars, msgVars, queueVars, extVars>>

\* joinRoom without a password
JoinStart(c) == JoinWith(c, NoPassword)

\* joinRoom with a password
JoinPassword(c, pw) == JoinWith(c, pw)

\* Room.createRouter, `this.router = await this.worker.createRouter(...)`
\* resolves (i = 1: inside initializeRoom, i = 2: the second call) or rejects
JoinRouter(c, i) ==
    /\ jPc[c] = (IF i = 1 THEN "r1" ELSE "r2")
    /\ \E ok \in BOOLEAN :
        IF ok
           THEN /\ router' = [router EXCEPT ![jRoom[c]] = RouterOf(jRoom[c], i)]
                /\ routerOpen' = routerOpen \cup {RouterOf(jRoom[c], i)}
                /\ jPc' = [jPc EXCEPT ![c] = IF i = 1 THEN "o1" ELSE "o2"]
                /\ UNCHANGED jRoom
           ELSE /\ jPc' = [jPc EXCEPT ![c] = "idle"]
                /\ jRoom' = [jRoom EXCEPT ![c] = None]
                /\ UNCHANGED <<router, routerOpen>>
    /\ UNCHANGED <<rooms, rMade, activeSpeakerObserver, observerOpen, handled,
                   refreshTimer, clients, activeSpeakerList, engineRuns, cRoom,
                   mediaVars, leaveVars, transportVars, pPc>>
    /\ UNCHANGED <<workerVars, secureVars, emittedUnlocked, sessionVars, msgVars, queueVars, extVars>>

\* `this.activeSpeakerObserver = await this.router.createActiveSpeakerObserver()`
\* resolves or rejects (it rejects when the router was closed meanwhile).
\* i = 1: initializeRoom registers the dominantspeaker handler on that
\* observer and starts the periodic refresh. i = 2: handleJoinRoom goes on to
\* incRouters and adds the client.
JoinObserver(c, i) ==
    /\ jPc[c] = (IF i = 1 THEN "o1" ELSE "o2")
    /\ LET o == jRoom[c]
           r == RouterOf(o, i)
       IN \E ok \in BOOLEAN :
           IF ok /\ r \in routerOpen
              THEN /\ activeSpeakerObserver' = [activeSpeakerObserver EXCEPT ![o] = r]
                   /\ observerOpen' = observerOpen \cup {r}
                   /\ IF i = 1
                         THEN /\ handled' = handled \cup {r}
                              /\ refreshTimer' = [refreshTimer EXCEPT ![o] = TRUE]
                              /\ jPc' = [jPc EXCEPT ![c] = "r2"]
                              /\ UNCHANGED <<cRoom, clients, jRoom>>
                         ELSE /\ cRoom' = [cRoom EXCEPT ![c] = o]
                              /\ clients' = [clients EXCEPT ![o][c] = @ + 1]
                              /\ jPc' = [jPc EXCEPT ![c] = "idle"]
                              /\ jRoom' = [jRoom EXCEPT ![c] = None]
                              /\ UNCHANGED <<handled, refreshTimer>>
                   /\ wRouters' = IF i = 1 THEN wRouters ELSE IncRouters(wRouters, 1)
              ELSE /\ jPc' = [jPc EXCEPT ![c] = "idle"]
                   /\ jRoom' = [jRoom EXCEPT ![c] = None]
                   /\ UNCHANGED <<activeSpeakerObserver, observerOpen, handled,
                                  refreshTimer, cRoom, clients, wRouters>>
    /\ UNCHANGED <<rooms, rMade, router, routerOpen, activeSpeakerList, engineRuns,
                   mediaVars, leaveVars, transportVars, pPc>>
    /\ UNCHANGED <<wTransports, tExtra, tCounted, secureVars, emittedUnlocked, sessionVars, msgVars, queueVars, extVars>>

\* handleLeaveRoom from `client.cleanup()` to its end, lst being the active
\* speaker lists at that point: Client.cleanup, Room.removeClient, and for an
\* empty clients array RoomService.removeRoom(roomId), which cleans up and
\* deletes whatever Room is registered under the roomId
LeaveTail(c, lst) ==
    LET o == lRoom[c]
        left == [clients[o] EXCEPT ![c] = 0]
        reg == IF NoClients(left) THEN rooms ELSE None
        rts == IF reg = None THEN {} ELSE CleanupRouters(reg)
        obs == IF reg = None THEN {} ELSE CleanupObservers(reg)
    IN /\ clients' = [x \in Rooms |->
                        IF x = reg THEN [y \in Peers |-> 0]
                        ELSE IF x = o THEN left ELSE clients[x]]
       /\ activeSpeakerList' = [x \in Rooms |-> IF x = reg THEN <<>> ELSE lst[x]]
       /\ rooms' = IF NoClients(left) THEN None ELSE rooms
       /\ router' = [x \in Rooms |-> IF x = reg THEN None ELSE router[x]]
       /\ activeSpeakerObserver' =
              [x \in Rooms |-> IF x = reg THEN None ELSE activeSpeakerObserver[x]]
       /\ refreshTimer' = [x \in Rooms |-> IF x = reg THEN FALSE ELSE refreshTimer[x]]
       /\ routerOpen' = routerOpen \ rts
       /\ observerOpen' = observerOpen \ obs
       /\ upstreamTransport' = [upstreamTransport EXCEPT ![c] = None]
       /\ audio' = [audio EXCEPT ![c] = None]
       /\ pState' = ProducersAfter(rts, {c})
       /\ pRouter' = RoutersAfter(ProducersAfter(rts, {c}))
       /\ pObserver' = ObserversAfter(ProducersAfter(rts, {c}))
       /\ pPc' = ProducingAfter(rts, {c})
       /\ lPc' = [lPc EXCEPT ![c] = "idle"]
       /\ lRoom' = [lRoom EXCEPT ![c] = None]
       /\ lPids' = [lPids EXCEPT ![c] = {}]
       /\ wTransports' = IF upstreamTransport[c] # None
                            THEN IncTransports(wTransports, -1)
                            ELSE wTransports
       /\ wRouters' = IF NoClients(left) THEN IncRouters(wRouters, -1) ELSE wRouters
       /\ tCounted' = [tCounted EXCEPT ![c] = 0]
       /\ UNCHANGED tExtra

\* handleLeaveRoom(socket), called and not awaited by the leaveRoom handler
\* and by handleDisconnect, up to `await sttService.stopTranscription`; a
\* client without a room is only cleaned up
LeaveStart(c) ==
    /\ lPc[c] = "idle"
    /\ IF cRoom[c] = None
          THEN /\ upstreamTransport' = [upstreamTransport EXCEPT ![c] = None]
               /\ audio' = [audio EXCEPT ![c] = None]
               /\ pState' = ProducersAfter({}, {c})
               /\ pRouter' = RoutersAfter(ProducersAfter({}, {c}))
               /\ pObserver' = ObserversAfter(ProducersAfter({}, {c}))
               /\ pPc' = ProducingAfter({}, {c})
               /\ UNCHANGED leaveVars
          ELSE /\ lPc' = [lPc EXCEPT ![c] = "stt"]
               /\ lRoom' = [lRoom EXCEPT ![c] = cRoom[c]]
               /\ lPids' = [lPids EXCEPT ![c] = {audio[c]} \ {None}]
               /\ UNCHANGED <<upstreamTransport, audio, pState, pRouter, pObserver,
                              pPc>>
    /\ UNCHANGED <<roomObjVars, clients, activeSpeakerList, engineRuns, cRoom,
                   pMade, pOwner, joinVars, transportVars>>
    /\ UNCHANGED <<workerVars, secureVars, emittedUnlocked, sessionVars, msgVars, queueVars, extVars>>

\* activeSpeakerList.filter(pid => !producerIds.includes(pid))
FilterOut(list, pids) == SelectSeq(list, LAMBDA p : p \notin pids)

\* stopTranscription returned: the captured producerIds are filtered out of
\* the list; a client that holds a producer now awaits the lock for its
\* producerClosed broadcast, any other goes on to the cleanup
LeaveFilter(c) ==
    /\ lPc[c] = "stt"
    /\ LET lst == [activeSpeakerList EXCEPT ![lRoom[c]] = FilterOut(@, lPids[c])]
       IN IF audio[c] # None
             THEN /\ activeSpeakerList' = lst
                  /\ lPc' = [lPc EXCEPT ![c] = "bcast"]
                  /\ UNCHANGED <<roomObjVars, clients, upstreamTransport, audio,
                                 pState, pRouter, pObserver, pPc, lRoom, lPids,
                                 workerVars>>
             ELSE /\ LeaveTail(c, lst)
                  /\ UNCHANGED <<rMade, handled>>
    /\ UNCHANGED <<engineRuns, cRoom, pMade, pOwner, joinVars, transportVars>>
    /\ UNCHANGED <<secureVars, emittedUnlocked, sessionVars, msgVars, queueVars, extVars>>

\* The withLock calls of the producerClosed broadcasts settled: fulfilled, the
\* leave goes on to the cleanup; rejected (the lock was not acquired),
\* handleLeaveRoom rejects at `await Promise.all`
LeaveBcast(c) ==
    /\ lPc[c] = "bcast"
    /\ \E ok \in BOOLEAN :
        IF ok
           THEN /\ LeaveTail(c, activeSpeakerList)
                /\ UNCHANGED <<rMade, handled>>
           ELSE /\ lPc' = [lPc EXCEPT ![c] = "idle"]
                /\ lRoom' = [lRoom EXCEPT ![c] = None]
                /\ lPids' = [lPids EXCEPT ![c] = {}]
                /\ UNCHANGED <<roomObjVars, clients, activeSpeakerList,
                               upstreamTransport, audio, pState, pRouter, pObserver,
                               pPc, workerVars>>
    /\ UNCHANGED <<engineRuns, cRoom, pMade, pOwner, joinVars, transportVars>>
    /\ UNCHANGED <<secureVars, emittedUnlocked, sessionVars, msgVars, queueVars, extVars>>

\* handleTransportRequest for a producer transport up to the await in
\* Client.addTransport. It throws without a room or without a router, and
\* returns the transport the client already has when that one is not closed.
TransportStart(c) ==
    /\ NoRequestPending(c)
    /\ cRoom[c] # None
    /\ router[cRoom[c]] # None
    /\ ~(upstreamTransport[c] # None /\ upstreamTransport[c] \in routerOpen)
    /\ wTransports < MaxTransports
    /\ tPc' = [tPc EXCEPT ![c] = "creating"]
    /\ tRouter' = [tRouter EXCEPT ![c] = router[cRoom[c]]]
    /\ UNCHANGED <<roomObjVars, clients, activeSpeakerList, engineRuns, cRoom,
                   mediaVars, joinVars, leaveVars, pPc>>
    /\ UNCHANGED <<workerVars, secureVars, emittedUnlocked, sessionVars, msgVars, queueVars, extVars>>

\* A second requestTransport for a producer transport from the same socket
\* while the first awaits createWebRtcTransport: the client has no upstream
\* transport yet, so this call creates one too.
TransportAgain(c) ==
    /\ tPc[c] = "creating"
    /\ ~tExtra[c]
    /\ cRoom[c] # None
    /\ router[cRoom[c]] = tRouter[c]
    /\ ~(upstreamTransport[c] # None /\ upstreamTransport[c] \in routerOpen)
    /\ wTransports < MaxTransports
    /\ tExtra' = [tExtra EXCEPT ![c] = TRUE]
    /\ UNCHANGED <<roomObjVars, clients, activeSpeakerList, engineRuns, cRoom,
                   mediaVars, joinVars, leaveVars, pPc, transportVars, wTransports,
                   wRouters, tCounted>>
    /\ UNCHANGED <<secureVars, emittedUnlocked, sessionVars, msgVars, queueVars, extVars>>

\* createWebRtcTransport settled: it rejects when the router was closed
TransportDone(c) ==
    /\ tPc[c] = "creating"
    /\ IF tExtra[c]
          THEN /\ tExtra' = [tExtra EXCEPT ![c] = FALSE]
               /\ UNCHANGED transportVars
          ELSE /\ tPc' = [tPc EXCEPT ![c] = "idle"]
               /\ tRouter' = [tRouter EXCEPT ![c] = None]
               /\ UNCHANGED tExtra
    /\ upstreamTransport' = IF tRouter[c] \in routerOpen
                               THEN [upstreamTransport EXCEPT ![c] = tRouter[c]]
                               ELSE upstreamTransport
    /\ wTransports' = IF tRouter[c] \in routerOpen
                         THEN IncTransports(wTransports, 1)
                         ELSE wTransports
    /\ tCounted' = IF tRouter[c] \in routerOpen
                      THEN [tCounted EXCEPT ![c] = @ + 1]
                      ELSE tCounted
    /\ UNCHANGED wRouters
    /\ UNCHANGED <<roomObjVars, clients, activeSpeakerList, engineRuns, cRoom,
                   audio, pMade, pOwner, pRouter, pState, pObserver, joinVars,
                   leaveVars, pPc>>
    /\ UNCHANGED <<secureVars, emittedUnlocked, sessionVars, msgVars, queueVars, extVars>>

\* handleStartProducing with kind 'audio' up to `await transport.produce()`;
\* it throws without a room, without a transport or on a closed transport
ProduceStart(c) ==
    /\ NoRequestPending(c)
    /\ cRoom[c] # None
    /\ upstreamTransport[c] # None
    /\ upstreamTransport[c] \in routerOpen
    /\ pMade + Cardinality({x \in Peers : pPc[x] \in {"producing", "dead"}}) < NumProducers
    /\ pPc' = [pPc EXCEPT ![c] = "producing"]
    /\ UNCHANGED <<roomObjVars, clients, activeSpeakerList, engineRuns, cRoom,
                   mediaVars, joinVars, leaveVars, transportVars>>
    /\ UNCHANGED <<workerVars, secureVars, emittedUnlocked, sessionVars, msgVars, queueVars, extVars>>

\* Client.addProducer: the observer that accepts the producer, which has to
\* live on the producer's router
ObserverFor(o, r) ==
    IF /\ activeSpeakerObserver[o] = r
       /\ r \in observerOpen
       THEN r ELSE None

\* produce() settled. On a transport closed meanwhile it either rejects or
\* resolves with a producer that is already gone. MediaService.startProducing
\* then stores the producer under client.producer.audio, adds it to the
\* room's observer and pushes its id on client.room.activeSpeakerList.
ProduceDone(c) ==
    /\ pPc[c] \in {"producing", "dead"}
    /\ \E resolved \in BOOLEAN :
        /\ pPc[c] = "producing" => resolved
        /\ IF resolved
              THEN LET p == pMade + 1
                       live == pPc[c] = "producing"
                   IN /\ pMade' = p
                      /\ pOwner' = [pOwner EXCEPT ![p] = c]
                      /\ pRouter' = [pRouter EXCEPT ![p] =
                                        IF live THEN upstreamTransport[c] ELSE None]
                      /\ pState' = [pState EXCEPT ![p] =
                                        IF live THEN "open" ELSE "closed"]
                      /\ pObserver' = [pObserver EXCEPT ![p] =
                                          IF live
                                             THEN ObserverFor(cRoom[c], upstreamTransport[c])
                                             ELSE None]
                      /\ audio' = [audio EXCEPT ![c] = p]
                      /\ activeSpeakerList' =
                             [activeSpeakerList EXCEPT ![cRoom[c]] = Append(@, p)]
                      /\ pPc' = [pPc EXCEPT ![c] = "stt"]
              ELSE /\ pPc' = [pPc EXCEPT ![c] = "idle"]
                   /\ UNCHANGED <<pMade, pOwner, pRouter, pState, pObserver, audio,
                                  activeSpeakerList>>
    /\ UNCHANGED <<roomObjVars, clients, engineRuns, cRoom, upstreamTransport,
                   joinVars, leaveVars, transportVars>>
    /\ UNCHANGED <<workerVars, secureVars, emittedUnlocked, sessionVars, msgVars, queueVars, extVars>>

Range(seq) == {seq[i] : i \in 1..Len(seq)}

\* updateActiveSpeakers(room) suspends on producer.resume()/pause() when a
\* client of the room holds a live audio producer that is in the list
HasAudioOps(o) ==
    \E c \in Peers :
        /\ clients[o][c] > 0
        /\ audio[c] # None
        /\ pState[audio[c]] = "open"
        /\ audio[c] \in Range(activeSpeakerList'[o])

\* updateActiveSpeakers(room) is called and runs up to `await Promise.all`
EngineBegin(o) ==
    IF HasAudioOps(o) THEN [engineRuns EXCEPT ![o] = @ + 1] ELSE engineRuns

\* The callers of updateActiveSpeakers
Origins == {"produce", "dominant", "refresh"}

\* Whether the caller emits inside withLock(roomId): handleStartProducing and
\* handleNewDominantSpeaker wrap their emissions, the refresh callback of
\* startPeriodicRefresh and emitNewProducers do not
UnderLock(origin) == origin # "refresh"

\* The record after an emission by `origin`
Emits(origin) == emittedUnlocked \/ ~UnderLock(origin)

\* startTranscription settled; handleStartProducing calls
\* updateActiveSpeakers(client.room); what follows its return only emits
ProduceEngine(c) ==
    /\ pPc[c] = "stt"
    /\ engineRuns[cRoom[c]] < MaxRuns
    /\ pPc' = [pPc EXCEPT ![c] = "idle"]
    /\ UNCHANGED <<roomObjVars, clients, activeSpeakerList, cRoom, mediaVars,
                   joinVars, leaveVars, transportVars>>
    /\ engineRuns' = EngineBegin(cRoom[c])
    /\ emittedUnlocked' = Emits("produce")
    /\ UNCHANGED <<workerVars, secureVars, sessionVars, msgVars, queueVars, extVars>>

\* `await Promise.all(clientProcessingPromises)` of a run returned; its
\* caller emits what is due. A run of the refresh callback began with an
\* emission outside the lock, so its later emission adds nothing to the
\* record; the other callers emit inside withLock.
EngineEnd(o) ==
    /\ engineRuns[o] > 0
    /\ engineRuns' = [engineRuns EXCEPT ![o] = @ - 1]
    /\ emittedUnlocked' = (emittedUnlocked \/ ~UnderLock("produce") \/ ~UnderLock("dominant"))
    /\ UNCHANGED <<roomObjVars, clients, activeSpeakerList, cRoom, mediaVars,
                   joinVars, leaveVars, transportVars, pPc>>
    /\ UNCHANGED <<workerVars, secureVars, sessionVars, msgVars, queueVars, extVars>>

\* splice(i, 1) at the first index holding p
RemoveFirst(list, p) ==
    IF p \notin Range(list) THEN list
    ELSE LET i == CHOOSE k \in 1..Len(list) :
                      list[k] = p /\ \A m \in 1..(k - 1) : list[m] # p
         IN SubSeq(list, 1, i - 1) \o SubSeq(list, i + 1, Len(list))

\* handleNewDominantSpeaker's list update: the id moves, or is put, in front
SpeakerToFront(list, p) == <<p>> \o RemoveFirst(list, p)

\* An observer that carries the handler reports producer p, which was added
\* to it and is open, as dominant speaker: handleNewDominantSpeaker(ds, room)
\* up to `await updateActiveSpeakers(room)`; it returns early when p is first
DominantSpeaker(p) ==
    /\ pState[p] = "open"
    /\ pObserver[p] \in (observerOpen \cap handled)
    /\ LET o == RoomOf(pObserver[p])
       IN /\ ~(activeSpeakerList[o] # <<>> /\ Head(activeSpeakerList[o]) = p)
          /\ engineRuns[o] < MaxRuns
          /\ activeSpeakerList' =
                 [activeSpeakerList EXCEPT ![o] = SpeakerToFront(@, p)]
          /\ engineRuns' = EngineBegin(o)
          /\ emittedUnlocked' = Emits("dominant")
    /\ UNCHANGED <<roomObjVars, clients, cRoom, mediaVars, joinVars, leaveVars,
                   transportVars, pPc>>
    /\ UNCHANGED <<workerVars, secureVars, sessionVars, msgVars, queueVars, extVars>>

\* The 25 s interval of the room fires: the refresh callback emits and calls
\* updateActiveSpeakers(room) when the room has clients and speakers
PeriodicRefresh(o) ==
    /\ refreshTimer[o]
    /\ ~NoClients(clients[o])
    /\ activeSpeakerList[o] # <<>>
    /\ engineRuns[o] < MaxRuns
    /\ UNCHANGED <<roomObjVars, clients, activeSpeakerList, cRoom, mediaVars,
                   joinVars, leaveVars, transportVars, pPc>>
    /\ engineRuns' = EngineBegin(o)
    /\ emittedUnlocked' = Emits("refresh")
    /\ UNCHANGED <<workerVars, secureVars, sessionVars, msgVars, queueVars, extVars>>

\* closeProducers({producerIds: [p]}) from peer c: a producer of the client
\* with that id is closed and deleted; the id is spliced out of the list of
\* client.room and producerClosed is broadcast whoever owns it
CloseProducers(c, p) ==
    /\ cRoom[c] # None
    /\ p <= pMade
    /\ IF audio[c] = p
          THEN /\ pState' = [pState EXCEPT ![p] = "closed"]
               /\ pRouter' = [pRouter EXCEPT ![p] = None]
               /\ pObserver' = [pObserver EXCEPT ![p] = None]
               /\ audio' = [audio EXCEPT ![c] = None]
          ELSE UNCHANGED <<pState, pRouter, pObserver, audio>>
    /\ activeSpeakerList' = [activeSpeakerList EXCEPT ![cRoom[c]] = RemoveFirst(@, p)]
    /\ UNCHANGED <<roomObjVars, clients, engineRuns, cRoom, upstreamTransport,
                   pMade, pOwner, joinVars, leaveVars, transportVars, pPc>>
    /\ UNCHANGED <<workerVars, secureVars, emittedUnlocked, sessionVars, msgVars, queueVars, extVars>>

MediaNext ==
    \/ \E c \in Peers : JoinStart(c)
    \/ \E c \in Peers, i \in {1, 2} : JoinRouter(c, i)
    \/ \E c \in Peers, i \in {1, 2} : JoinObserver(c, i)
    \/ \E c \in Peers : LeaveStart(c)
    \/ \E c \in Peers : LeaveFilter(c)
    \/ \E c \in Peers : LeaveBcast(c)
    \/ \E c \in Peers : TransportStart(c)
    \/ \E c \in Peers : TransportDone(c)
    \/ \E c \in Peers : ProduceStart(c)
    \/ \E c \in Peers : ProduceDone(c)
    \/ \E c \in Peers : ProduceEngine(c)
    \/ \E o \in Rooms : EngineEnd(o)
    \/ \E p \in Producers : DominantSpeaker(p)
    \/ \E o \in Rooms : PeriodicRefresh(o)
    \/ \E c \in Peers, p \in Producers : CloseProducers(c, p)

\* Joins and leaves alone: the room registry and the routers
RoomNext ==
    \/ \E c \in Peers : JoinStart(c)
    \/ \E c \in Peers, i \in {1, 2} : JoinRouter(c, i)
    \/ \E c \in Peers, i \in {1, 2} : JoinObserver(c, i)
    \/ \E c \in Peers : LeaveStart(c)
    \/ \E c \in Peers : LeaveFilter(c)

RejoinNext ==
    \/ RoomNext
    \/ \E c \in Peers : JoinRecreate(c)

PasswordNext ==
    \/ RoomNext
    \/ \E c \in Peers, pw \in Passwords : JoinPassword(c, pw)

TransportNext ==
    \/ RoomNext
    \/ \E c \in Peers : TransportStart(c)
    \/ \E c \in Peers : TransportAgain(c)
    \/ \E c \in Peers : TransportDone(c)

\* ------------------------------------------------------------------------
\* Audio side-tap: the RTP/RTCP port pool of StreamingSTTService
\* ------------------------------------------------------------------------
NumPorts == 4

NumTaps == 2

NumStops == 2

\* initializePortPool: every port of the range starts in the pool
Ports == 1..NumPorts

\* participantId = client.userId, one per socket
Taps == 1..NumTaps

\* stopTranscription calls in flight (leaveRoom and disconnect both stop)
Stops == 1..NumStops

TapInit ==
    /\ availablePorts = Ports
    /\ usedPorts = {}
    /\ rtpSessions = [p \in Taps |-> FALSE]
    /\ sessRtp = [p \in Taps |-> None]
    /\ sessRtcp = [p \in Taps |-> None]
    /\ listening = [p \in Taps |-> FALSE]
    /\ stPc = [p \in Taps |-> "idle"]
    /\ stSorted = [p \in Taps |-> {}]
    /\ stI = [p \in Taps |-> 0]
    /\ stOk1 = [p \in Taps |-> FALSE]
    /\ stRtp = [p \in Taps |-> None]
    /\ stRtcp = [p \in Taps |-> None]
    /\ spPc = [k \in Stops |-> "idle"]
    /\ spWho = [k \in Stops |-> None]
    /\ spRtp = [k \in Stops |-> None]
    /\ spRtcp = [k \in Stops |-> None]
    /\ spStale = [k \in Stops |-> FALSE]
    /\ orphanPorts = {}

\* Array.from(set).sort((a, b) => a - b)
RECURSIVE SortedSeq(_)
SortedSeq(S) ==
    IF S = {} THEN <<>>
    ELSE LET m == CHOOSE x \in S : \A y \in S : x <= y
         IN <<m>> \o SortedSeq(S \ {m})

\* The for-loop of getAvailablePortPair from index i on: the first index
\* whose two entries are consecutive ports (0: the loop runs out)
RECURSIVE NextPair(_, _)
NextPair(sorted, i) ==
    IF i > Len(sorted) - 1 THEN 0
    ELSE IF sorted[i + 1] = sorted[i] + 1 THEN i
    ELSE NextPair(sorted, i + 1)

\* The UDP ports a running segmenter process holds open
BoundPorts ==
    orphanPorts \cup UNION {{sessRtp[p], sessRtcp[p]} : p \in {x \in Taps : listening[x]}}

\* isPortAvailable: binding fails on a port another process holds; a port
\* nobody of this service holds may still be taken by a foreign process
ProbeResults(port) == IF port \in BoundPorts THEN {FALSE} ELSE BOOLEAN

\* startTranscription up to its first await (initializeRoomAudioDirectory)
StBegin(p) ==
    /\ stPc[p] = "idle"
    /\ ~rtpSessions[p]
    /\ stPc' = [stPc EXCEPT ![p] = "dir"]
    /\ UNCHANGED <<availablePorts, usedPorts, rtpSessions, sessRtp, sessRtcp,
                   listening, stSorted, stI, stOk1, stRtp, stRtcp,
                   spPc, spWho, spRtp, spRtcp, spStale, orphanPorts>>
    /\ UNCHANGED <<sessionVars, msgVars, queueVars, roomVars, segVars, engVars, ctVars, wkVars>>

\* getAvailablePortPair up to its first probe: size check, snapshot of the
\* pool, search for the first consecutive pair
StScan(p) ==
    /\ stPc[p] = "dir"
    /\ LET sorted == SortedSeq(availablePorts)
           i == NextPair(sorted, 1)
       IN IF Cardinality(availablePorts) < 2 \/ i = 0
             THEN /\ stPc' = [stPc EXCEPT ![p] = "idle"]
                  /\ UNCHANGED <<stSorted, stI>>
             ELSE /\ stPc' = [stPc EXCEPT ![p] = "probe1"]
                  /\ stSorted' = [stSorted EXCEPT ![p] = availablePorts]
                  /\ stI' = [stI EXCEPT ![p] = i]
    /\ UNCHANGED <<availablePorts, usedPorts, rtpSessions, sessRtp, sessRtcp,
                   listening, stOk1, stRtp, stRtcp, spPc, spWho, spRtp, spRtcp, spStale, orphanPorts>>
    /\ UNCHANGED <<sessionVars, msgVars, queueVars, roomVars, segVars, engVars, ctVars, wkVars>>

\* await isPortAvailable(port1)
StProbe1(p) ==
    /\ stPc[p] = "probe1"
    /\ \E ok \in ProbeResults(SortedSeq(stSorted[p])[stI[p]]) :
        stOk1' = [stOk1 EXCEPT ![p] = ok]
    /\ stPc' = [stPc EXCEPT ![p] = "probe2"]
    /\ UNCHANGED <<availablePorts, usedPorts, rtpSessions, sessRtp, sessRtcp,
                   listening, stSorted, stI, stRtp, stRtcp, spPc, spWho, spRtp, spRtcp, spStale, orphanPorts>>
    /\ UNCHANGED <<sessionVars, msgVars, queueVars, roomVars, segVars, engVars, ctVars, wkVars>>

\* A loop body that marks port1 used as soon as its own probe passed
UsedAfterFirstProbe(used, port1, port2, ok1, ok2) ==
    used \cup (IF ok1 THEN {port1} ELSE {}) \cup (IF ok1 /\ ok2 THEN {port2} ELSE {})

\* usedPorts after the loop body: both ports are added when both probes
\* passed, none otherwise
UsedAfterProbes(used, port1, port2, ok1, ok2) ==
    IF ok1 /\ ok2 THEN used \cup {port1, port2} ELSE used

\* await isPortAvailable(port2), then the rest of the loop body: allocate
\* the pair, or drop the unavailable ports and go on with the snapshot
StProbe2(p) ==
    /\ stPc[p] = "probe2"
    /\ LET sorted == SortedSeq(stSorted[p])
           port1 == sorted[stI[p]]
           port2 == sorted[stI[p] + 1]
           next == NextPair(sorted, stI[p] + 1)
       IN \E ok2 \in ProbeResults(port2) :
           IF stOk1[p] /\ ok2
              THEN /\ availablePorts' = availablePorts \ {port1, port2}
                   /\ usedPorts' = UsedAfterProbes(usedPorts, port1, port2, stOk1[p], ok2)
                   /\ stRtp' = [stRtp EXCEPT ![p] = port1]
                   /\ stRtcp' = [stRtcp EXCEPT ![p] = port2]
                   /\ stPc' = [stPc EXCEPT ![p] = "setup"]
                   /\ stSorted' = [stSorted EXCEPT ![p] = {}]
                   /\ stI' = [stI EXCEPT ![p] = 0]
              ELSE /\ availablePorts' = availablePorts \
                          ((IF stOk1[p] THEN {} ELSE {port1}) \cup
                           (IF ok2 THEN {} ELSE {port2}))
                   /\ usedPorts' = UsedAfterProbes(usedPorts, port1, port2, stOk1[p], ok2)
                   /\ UNCHANGED <<stRtp, stRtcp>>
                   /\ IF next = 0
                         THEN /\ stPc' = [stPc EXCEPT ![p] = "idle"]
                              /\ stSorted' = [stSorted EXCEPT ![p] = {}]
                              /\ stI' = [stI EXCEPT ![p] = 0]
                         ELSE /\ stPc' = [stPc EXCEPT ![p] = "probe1"]
                              /\ stI' = [stI EXCEPT ![p] = next]
                              /\ UNCHANGED stSorted
    /\ stOk1' = [stOk1 EXCEPT ![p] = FALSE]
    /\ UNCHANGED <<rtpSessions, sessRtp, sessRtcp, listening, spPc, spWho, spRtp, spRtcp, spStale, orphanPorts>>
    /\ UNCHANGED <<sessionVars, msgVars, queueVars, roomVars, segVars, engVars, ctVars, wkVars>>

\* createPlainTransport, connect, consume, startFFmpegCapture: either all
\* succeed and the session is registered, or one throws and the start call
\* ends in its catch block (the pair stays in usedPorts)
StSetup(p) ==
    /\ stPc[p] = "setup"
    /\ \E ok \in BOOLEAN :
        IF ok THEN /\ rtpSessions' = [rtpSessions EXCEPT ![p] = TRUE]
                   /\ sessRtp' = [sessRtp EXCEPT ![p] = stRtp[p]]
                   /\ sessRtcp' = [sessRtcp EXCEPT ![p] = stRtcp[p]]
                   /\ lastProcessedSegment' = [lastProcessedSegment EXCEPT ![p] = -1]
                   /\ processingSegments' = [processingSegments EXCEPT ![p] = {}]
              ELSE UNCHANGED <<rtpSessions, sessRtp, sessRtcp,
                               lastProcessedSegment, processingSegments>>
    /\ stRtp' = [stRtp EXCEPT ![p] = None]
    /\ stRtcp' = [stRtcp EXCEPT ![p] = None]
    /\ stPc' = [stPc EXCEPT ![p] = "idle"]
    /\ UNCHANGED <<availablePorts, usedPorts, listening, stSorted, stI, stOk1,
                   spPc, spWho, spRtp, spRtcp, spStale, orphanPorts>>
    /\ UNCHANGED <<segListed, handed, fePc, feWho, feLines, feSeg>>
    /\ UNCHANGED <<sessionVars, msgVars, queueVars, roomVars, engVars, ctVars, wkVars>>

\* The spawned segmenter opens the SDP input and binds the two ports
SegmenterListens(p) ==
    /\ rtpSessions[p]
    /\ ~listening[p]
    /\ \A k \in Stops : ~(spPc[k] = "unlink" /\ spWho[k] = p /\ ~spStale[k])
    /\ {sessRtp[p], sessRtcp[p]} \cap BoundPorts = {}
    /\ listening' = [listening EXCEPT ![p] = TRUE]
    /\ UNCHANGED <<availablePorts, usedPorts, rtpSessions, sessRtp, sessRtcp,
                   stPc, stSorted, stI, stOk1, stRtp, stRtcp, spPc, spWho, spRtp, spRtcp, spStale, orphanPorts>>
    /\ UNCHANGED <<sessionVars, msgVars, queueVars, roomVars, segVars, engVars, ctVars, wkVars>>

\* stopTranscription up to its first await: the session is read, marked
\* inactive, the segmenter is killed, the plain transport closed
SpBegin(k, p) ==
    /\ spPc[k] = "idle"
    /\ \A j \in Stops : j < k => spPc[j] # "idle"
    /\ rtpSessions[p]
    /\ spPc' = [spPc EXCEPT ![k] = "unlink"]
    /\ spWho' = [spWho EXCEPT ![k] = p]
    /\ spRtp' = [spRtp EXCEPT ![k] = sessRtp[p]]
    /\ spRtcp' = [spRtcp EXCEPT ![k] = sessRtcp[p]]
    /\ listening' = [listening EXCEPT ![p] = FALSE]
    /\ UNCHANGED <<availablePorts, usedPorts, rtpSessions, sessRtp, sessRtcp,
                   stPc, stSorted, stI, stOk1, stRtp, stRtcp, spStale, orphanPorts>>
    /\ UNCHANGED <<sessionVars, msgVars, queueVars, roomVars, segVars, engVars, ctVars, wkVars>>

\* releasePort
ReleasePort(pools, port) ==
    IF port \in pools[2]
       THEN <<pools[1] \cup {port}, pools[2] \ {port}>>
       ELSE pools

\* stopTranscription after the unlink awaits (the SDP file and the segment
\* list are deleted): both ports are released and
\* the entry of the participant is deleted from rtpSessions. When an earlier
\* stop call already deleted the session this call read, the entry deleted
\* now is a later session, whose segmenter nobody killed.
SpFinish(k) ==
    /\ spPc[k] = "unlink"
    /\ orphanPorts' = IF spStale[k] /\ listening[spWho[k]]
                         THEN orphanPorts \cup {sessRtp[spWho[k]], sessRtcp[spWho[k]]}
                         ELSE orphanPorts
    /\ spStale' = [j \in Stops |->
                      /\ j # k
                      /\ spPc[j] = "unlink"
                      /\ (spStale[j] \/ spWho[j] = spWho[k])]
    /\ LET pools == ReleasePort(ReleasePort(<<availablePorts, usedPorts>>, spRtp[k]),
                                spRtcp[k])
       IN /\ availablePorts' = pools[1]
          /\ usedPorts' = pools[2]
    /\ rtpSessions' = [rtpSessions EXCEPT ![spWho[k]] = FALSE]
    /\ sessRtp' = [sessRtp EXCEPT ![spWho[k]] = None]
    /\ sessRtcp' = [sessRtcp EXCEPT ![spWho[k]] = None]
    /\ listening' = [listening EXCEPT ![spWho[k]] = FALSE]
    /\ spPc' = [spPc EXCEPT ![k] = "idle"]
    /\ spWho' = [spWho EXCEPT ![k] = None]
    /\ spRtp' = [spRtp EXCEPT ![k] = None]
    /\ spRtcp' = [spRtcp EXCEPT ![k] = None]
    /\ UNCHANGED <<stPc, stSorted, stI, stOk1, stRtp, stRtcp>>
    /\ segListed' = [segListed EXCEPT ![spWho[k]] = 0]
    /\ UNCHANGED <<lastProcessedSegment, processingSegments, handed, fePc, feWho,
                   feLines, feSeg>>
    /\ UNCHANGED <<sessionVars, msgVars, queueVars, roomVars, engVars, ctVars, wkVars>>

TapNext ==
    \/ \E p \in Taps : StBegin(p)
    \/ \E p \in Taps : StScan(p)
    \/ \E p \in Taps : StProbe1(p)
    \/ \E p \in Taps : StProbe2(p)
    \/ \E p \in Taps : StSetup(p)
    \/ \E p \in Taps : SegmenterListens(p)
    \/ \E k \in Stops, p \in Taps : SpBegin(k, p)
    \/ \E k \in Stops : SpFinish(k)

\* ------------------------------------------------------------------------
\* Audio side-tap: the segment list watcher and the transcription worker
\* ------------------------------------------------------------------------
NumSegs == 2

NumEvents == 2

MaxHands == 2

\* Segment indices written by the segmenter: _segment_000.wav, _segment_001.wav
Segs == 0..(NumSegs - 1)

\* handleFileEvent calls in flight
Events == 1..NumEvents

SegInit ==
    /\ segListed = [p \in Taps |-> 0]
    /\ lastProcessedSegment = [p \in Taps |-> -1]
    /\ processingSegments = [p \in Taps |-> {}]
    /\ handed = [p \in Taps |-> [i \in Segs |-> 0]]
    /\ fePc = [h \in Events |-> "idle"]
    /\ feWho = [h \in Events |-> None]
    /\ feLines = [h \in Events |-> 0]
    /\ feSeg = [h \in Events |-> 0]

\* The segmenter closes a segment and appends its name to the list file
SegmentCloses(p) ==
    /\ rtpSessions[p]
    /\ segListed[p] < NumSegs
    /\ segListed' = [segListed EXCEPT ![p] = @ + 1]
    /\ UNCHANGED <<lastProcessedSegment, processingSegments, handed, fePc, feWho,
                   feLines, feSeg>>
    /\ UNCHANGED <<sessionVars, msgVars, queueVars, roomVars, tapVars, engVars, ctVars, wkVars>>

\* The watcher reports 'add' or 'change' of the list file: handleFileEvent up
\* to its await (the session is looked up, then readFile is issued)
FileEvent(h, p) ==
    /\ fePc[h] = "idle"
    /\ \A j \in Events : j < h => fePc[j] # "idle"
    /\ segListed[p] > 0
    /\ rtpSessions[p]
    /\ \A i \in Segs : handed[p][i] < MaxHands
    /\ fePc' = [fePc EXCEPT ![h] = "read"]
    /\ feWho' = [feWho EXCEPT ![h] = p]
    /\ UNCHANGED <<segListed, lastProcessedSegment, processingSegments, handed,
                   feLines, feSeg>>
    /\ UNCHANGED <<sessionVars, msgVars, queueVars, roomVars, tapVars, engVars, ctVars, wkVars>>

\* The for-loop over the lines from index i on: the first segment index that
\* is new and not being processed (-1: the loop runs out)
RECURSIVE NextSegment(_, _, _, _)
NextSegment(i, lines, last, processing) ==
    IF i >= lines THEN -1
    ELSE IF i > last /\ i \notin processing THEN i
    ELSE NextSegment(i + 1, lines, last, processing)

\* The loop reaches segment index i (or runs out): mark it in flight and
\* call processWithWhisper
HandOver(h, p, i, lines, last, processing) ==
    IF i = -1
       THEN /\ fePc' = [fePc EXCEPT ![h] = "idle"]
            /\ feWho' = [feWho EXCEPT ![h] = None]
            /\ feLines' = [feLines EXCEPT ![h] = 0]
            /\ feSeg' = [feSeg EXCEPT ![h] = 0]
            /\ processingSegments' = [processingSegments EXCEPT ![p] = processing]
            /\ UNCHANGED handed
       ELSE /\ fePc' = [fePc EXCEPT ![h] = "whisper"]
            /\ feLines' = [feLines EXCEPT ![h] = lines]
            /\ feSeg' = [feSeg EXCEPT ![h] = i]
            /\ processingSegments' = [processingSegments EXCEPT ![p] = processing \cup {i}]
            /\ handed' = [handed EXCEPT ![p][i] = @ + 1]
            /\ UNCHANGED feWho

\* readFile resolves: the lines are parsed and the loop starts
FeRead(h) ==
    /\ fePc[h] = "read"
    /\ LET p == feWho[h] IN
        /\ HandOver(h, p,
                    NextSegment(0, segListed[p], lastProcessedSegment[p],
                                processingSegments[p]),
                    segListed[p], lastProcessedSegment[p], processingSegments[p])
        /\ UNCHANGED <<segListed, lastProcessedSegment>>
    /\ UNCHANGED <<sessionVars, msgVars, queueVars, roomVars, tapVars, engVars, ctVars, wkVars>>

\* processWithWhisper resolves with a transcription (ok) or with null
\* (missing file, exit code, empty text, 60 s timeout); the in-flight marker
\* is removed and the loop goes on with the next line
FeWhisper(h) ==
    /\ fePc[h] = "whisper"
    /\ LET p == feWho[h]
           i == feSeg[h]
       IN \E ok \in BOOLEAN :
           LET last == IF ok THEN Max(lastProcessedSegment[p], i)
                             ELSE lastProcessedSegment[p]
               processing == processingSegments[p] \ {i}
           IN /\ lastProcessedSegment' = [lastProcessedSegment EXCEPT ![p] = last]
              /\ HandOver(h, p, NextSegment(i + 1, feLines[h], last, processing),
                          feLines[h], last, processing)
    /\ UNCHANGED segListed
    /\ UNCHANGED <<sessionVars, msgVars, queueVars, roomVars, tapVars, engVars, ctVars, wkVars>>

\* The segment watcher over the sessions the start calls register
SegNext ==
    \/ \E p \in Taps : StBegin(p)
    \/ \E p \in Taps : StScan(p)
    \/ \E p \in Taps : StProbe1(p)
    \/ \E p \in Taps : StProbe2(p)
    \/ \E p \in Taps : StSetup(p)
    \/ \E p \in Taps : SegmentCloses(p)
    \/ \E h \in Events, p \in Taps : FileEvent(h, p)
    \/ \E h \in Events : FeRead(h)
    \/ \E h \in Events : FeWhisper(h)

\* ------------------------------------------------------------------------
\* Active-Speaker Engine: which producers and consumers a run pauses
\* ------------------------------------------------------------------------
\* appConfig.roomSettings.maxActiveSpeakers (10 in the configuration), scaled
\* down so that a room of NumPeers peers can have muted speakers
maxActiveSpeakers == 1

\* Producers open in the room at one time
MaxOpen == 3

\* The keys of Client.producer and of a downstream transport's consumers
Kinds == {"audio", "video", "screenAudio"}

KindIndex(k) == IF k = "audio" THEN 1 ELSE IF k = "video" THEN 2 ELSE 3

\* producer.id of client.producer[k]: a peer produces each kind under one id
PidOf(c, k) == 3 * (c - 1) + KindIndex(k)

Pids == {PidOf(c, k) : c \in Peers, k \in Kinds}

\* The client and the key a producer id was created under
OwnerOf(pid) == ((pid - 1) \div 3) + 1

KeyOf(pid) ==
    IF (pid - 1) % 3 = 0 THEN "audio" ELSE IF (pid - 1) % 3 = 1 THEN "video" ELSE "screenAudio"

\* mapStreamKindToMediaKind
MediaKindOf(k) == IF k \in {"audio", "screenAudio"} THEN "audio" ELSE "video"

EngInit ==
    /\ members = {}
    /\ hasRoom = {}
    /\ producer = [c \in Peers |-> [k \in Kinds |-> FALSE]]
    /\ speakerList = <<>>
    /\ associatedAudioPid = [c \in Peers |-> None]
    /\ associatedVideoPid = [c \in Peers |-> None]
    /\ consumer = [c \in Peers |-> [k \in Kinds |-> None]]
    /\ consumerPaused = [c \in Peers |-> [k \in Kinds |-> FALSE]]
    /\ runPc = "idle"
    /\ enginePaused = {}
    /\ newTransportsByPeer = [c \in Peers |-> {}]
    /\ closedConsumer = [c \in Peers |-> [k \in Kinds |-> None]]
    /\ calledClosed = FALSE
    /\ lastDominant = None

\* Room.addClient at the end of handleJoinRoom; client.room is set
AddClient(c) ==
    /\ c \notin members
    /\ members' = members \cup {c}
    /\ hasRoom' = hasRoom \cup {c}
    /\ UNCHANGED <<producer, speakerList, associatedAudioPid,
                   associatedVideoPid, consumer, consumerPaused, runPc, enginePaused,
                   newTransportsByPeer, closedConsumer, calledClosed, lastDominant>>
    /\ UNCHANGED <<sessionVars, msgVars, queueVars, roomVars, tapVars, segVars, ctVars, wkVars>>

\* handleLeaveRoom (it runs whenever client.room is set, which a leave does
\* not undo): the peer's producer ids leave the list, the consumers fed by
\* its producers close with them, Client.cleanup drops its transports and
\* producers, the peer leaves room.clients
LeaveEffects(c) ==
    /\ c \in hasRoom
    /\ members' = members \ {c}
    /\ speakerList' = SelectSeq(speakerList,
                                LAMBDA pid : ~(OwnerOf(pid) = c /\ producer[c][KeyOf(pid)]))
    /\ producer' = [producer EXCEPT ![c] = [k \in Kinds |-> FALSE]]
    /\ associatedAudioPid' = [associatedAudioPid EXCEPT ![c] = None]
    /\ associatedVideoPid' = [associatedVideoPid EXCEPT ![c] = None]
    /\ consumer' = [x \in Peers |-> [k \in Kinds |->
                       IF x = c \/ (consumer[x][k] # None /\ OwnerOf(consumer[x][k]) = c)
                          THEN None ELSE consumer[x][k]]]
    /\ consumerPaused' = [x \in Peers |-> [k \in Kinds |->
                             consumerPaused[x][k] /\ consumer'[x][k] # None]]
    /\ UNCHANGED <<hasRoom, runPc, enginePaused, newTransportsByPeer, calledClosed, lastDominant>>
    /\ UNCHANGED <<sessionVars, msgVars, queueVars, roomVars, tapVars, segVars, ctVars, wkVars>>

\* The leave as the engine sees it: a closed consumer is skipped by every
\* loop of updateActiveSpeakers, the objects left behind are not recorded
RemoveClient(c) ==
    /\ LeaveEffects(c)
    /\ UNCHANGED closedConsumer

\* The leave with the closed consumer objects it leaves behind: the
\* downstream transports of the other clients keep the consumers that
\* closed with the peer's producers
RemoveClientClosing(c) ==
    /\ LeaveEffects(c)
    /\ closedConsumer' = [x \in Peers |-> [k \in Kinds |->
                             IF x = c THEN None
                             ELSE IF consumer[x][k] # None /\ OwnerOf(consumer[x][k]) = c
                                THEN consumer[x][k]
                                ELSE closedConsumer[x][k]]]

\* handleStreamTypeSpecifics: audio and screenAudio producers are appended
\* to client.room.activeSpeakerList
ListAfterProduce(list, c, k) ==
    IF k \in {"audio", "screenAudio"} THEN Append(list, PidOf(c, k)) ELSE list

\* MediaService.startProducing: the producer is created on the upstream
\* transport and stored under client.producer[kind]
StartProducing(c, k) ==
    /\ c \in hasRoom
    /\ ~producer[c][k]
    /\ Cardinality({pid \in Pids : producer[OwnerOf(pid)][KeyOf(pid)]}) < MaxOpen
    /\ producer' = [producer EXCEPT ![c][k] = TRUE]
    /\ speakerList' = ListAfterProduce(speakerList, c, k)
    /\ UNCHANGED <<members, hasRoom, associatedAudioPid,
                   associatedVideoPid, consumer, consumerPaused, runPc, enginePaused,
                   newTransportsByPeer, closedConsumer, calledClosed, lastDominant>>
    /\ UNCHANGED <<sessionVars, msgVars, queueVars, roomVars, tapVars, segVars, ctVars, wkVars>>

\* findVideoPid: the video producer of the room member that owns audioPid
\* (screenVideo is never produced here: null for a screenAudio producer)
FindVideoPid(audioPid) ==
    LET c == OwnerOf(audioPid)
        k == KeyOf(audioPid)
    IN IF c \in members /\ k = "audio" /\ producer[c]["audio"] /\ producer[c]["video"]
          THEN PidOf(c, "video")
          ELSE None

\* handleTransportRequest, CONSUMER role: a downstream transport associated
\* with the audioPid the client names, the id of a producer of another peer
\* (one downstream transport per client)
RequestConsumerTransport(c, audioPid) ==
    /\ c \in hasRoom
    /\ OwnerOf(audioPid) # c
    /\ producer[OwnerOf(audioPid)][KeyOf(audioPid)]
    /\ associatedAudioPid[c] = None
    /\ associatedAudioPid' = [associatedAudioPid EXCEPT ![c] = audioPid]
    /\ associatedVideoPid' = [associatedVideoPid EXCEPT ![c] = FindVideoPid(audioPid)]
    /\ UNCHANGED <<members, hasRoom, producer, speakerList, consumer,
                   consumerPaused, runPc, enginePaused, newTransportsByPeer,
                   closedConsumer, calledClosed, lastDominant>>
    /\ UNCHANGED <<sessionVars, msgVars, queueVars, roomVars, tapVars, segVars, ctVars, wkVars>>

\* consumeMedia: the key the consumer is stored under is the key the owning
\* room member holds the producer under, else the kind the client sent
ActualKind(pid, kind) ==
    IF OwnerOf(pid) \in members /\ producer[OwnerOf(pid)][KeyOf(pid)]
       THEN KeyOf(pid) ELSE kind

\* consumeMedia: canConsume, transport lookup by the associated pid of the
\* actual kind, consume({paused: false}), addConsumer
ConsumeMedia(c, pid, kind) ==
    /\ c \in hasRoom
    /\ producer[OwnerOf(pid)][KeyOf(pid)]
    /\ LET actualKind == ActualKind(pid, kind) IN
        /\ IF MediaKindOf(actualKind) = "audio"
              THEN associatedAudioPid[c] = pid
              ELSE associatedVideoPid[c] = pid
        /\ consumer' = [consumer EXCEPT ![c][actualKind] = pid]
        /\ consumerPaused' = [consumerPaused EXCEPT ![c][actualKind] = FALSE]
        /\ closedConsumer' = [closedConsumer EXCEPT ![c][actualKind] = None]
    /\ UNCHANGED <<members, hasRoom, producer, speakerList,
                   associatedAudioPid, associatedVideoPid, runPc, enginePaused,
                   newTransportsByPeer, calledClosed, lastDominant>>
    /\ UNCHANGED <<sessionVars, msgVars, queueVars, roomVars, tapVars, segVars, ctVars, wkVars>>

\* activeSpeakerList.slice(maxActiveSpeakers)
MutedSpeakers(list) ==
    {list[i] : i \in {j \in 1..Len(list) : j > maxActiveSpeakers}}

\* activeSpeakerList.slice(0, maxActiveSpeakers)
ActiveSpeakers(list) ==
    {list[i] : i \in {j \in 1..Len(list) : j <= maxActiveSpeakers}}

\* A mute loop that also pauses the video consumer of the transport
\* associated with a muted pid
PauseAudioAndVideo(c, muted) ==
    {<<"producer", c, "audio">> : x \in {pid \in muted :
          producer[c]["audio"] /\ PidOf(c, "audio") = pid}}
    \cup
    {<<"consumer", c, "audio">> : x \in {pid \in muted :
          /\ ~(producer[c]["audio"] /\ PidOf(c, "audio") = pid)
          /\ consumer[c]["audio"] = pid}}
    \cup
    {<<"consumer", c, "video">> : x \in {pid \in muted :
          /\ associatedAudioPid[c] = pid
          /\ consumer[c]["video"] # None}}

\* The mute loop for one client: its own audio producer when that is a
\* muted pid, else the consumer stored under downstream.audio for that pid
PauseTargets(c, muted) ==
    {<<"producer", c, "audio">> : x \in {pid \in muted :
          producer[c]["audio"] /\ PidOf(c, "audio") = pid}}
    \cup
    {<<"consumer", c, "audio">> : x \in {pid \in muted :
          /\ ~(producer[c]["audio"] /\ PidOf(c, "audio") = pid)
          /\ consumer[c]["audio"] = pid}}

\* The resume loop for one client: its own audio producer, else the audio
\* consumer of the transport associated with the active pid
ResumeTargets(c, active) ==
    {<<"producer", c, "audio">> : x \in {pid \in active :
          producer[c]["audio"] /\ PidOf(c, "audio") = pid}}
    \cup
    {<<"consumer", c, "audio">> : x \in {pid \in active :
          /\ ~(producer[c]["audio"] /\ PidOf(c, "audio") = pid)
          /\ associatedAudioPid[c] = pid
          /\ consumer[c]["audio"] # None}}

\* The video pass for one client: the paused video consumer of an active
\* speaker is resumed (as is the client's own paused video producer, whose
\* flag is not kept here), nothing is paused
VideoResumeTargets(c, active) ==
    {<<"consumer", c, "video">> : x \in {pid \in active :
          /\ ~(producer[c]["video"] /\ producer[c]["audio"] /\ PidOf(c, "audio") = pid)
          /\ associatedAudioPid[c] = pid
          /\ consumer[c]["video"] # None
          /\ consumerPaused[c]["video"]}}

\* The resume loop for one client: newSpeakersToThisClient, the active pids
\* that are neither the client's own open audio producer nor the associated
\* pid of a downstream transport of the client that holds an audio consumer
NewSpeakers(c, active) ==
    {pid \in active :
        /\ ~(producer[c]["audio"] /\ PidOf(c, "audio") = pid)
        /\ ~(/\ associatedAudioPid[c] = pid
             /\ (consumer[c]["audio"] # None \/ closedConsumer[c]["audio"] # None))}

\* The media kind of the object a pause or resume operation is applied to
TargetKind(t) ==
    IF t[1] = "producer" THEN MediaKindOf(t[3])
    ELSE MediaKindOf(KeyOf(consumer[t[2]][t[3]]))

\* updateActiveSpeakers up to its await, on the list as it stands at the call:
\* the list is sliced, every client is scanned and the pause and resume
\* requests go to the worker in that order
RunOps(list) ==
    /\ LET muted == MutedSpeakers(list)
           active == ActiveSpeakers(list)
           pauses == UNION {PauseTargets(c, muted) : c \in members}
           resumes == UNION {ResumeTargets(c, active) : c \in members}
                        \cup UNION {VideoResumeTargets(c, active) : c \in members}
           after(kind, c, k, was) ==
               IF <<kind, c, k>> \in resumes THEN FALSE
               ELSE IF <<kind, c, k>> \in pauses THEN TRUE
               ELSE was
       IN /\ consumerPaused' = [c \in Peers |-> [k \in Kinds |->
                                   after("consumer", c, k, consumerPaused[c][k])]]
          /\ enginePaused' = enginePaused \cup {TargetKind(t) : t \in pauses}
    /\ runPc' = "ops"

\* A run started by a join, a new producer or the room's periodic refresh
\* (its result map is not recorded)
UpdateBegin ==
    /\ runPc = "idle"
    /\ members # {}
    /\ RunOps(speakerList)
    /\ UNCHANGED <<members, hasRoom, producer, speakerList, associatedAudioPid,
                   associatedVideoPid, consumer, newTransportsByPeer,
                   closedConsumer, calledClosed, lastDominant>>
    /\ UNCHANGED <<sessionVars, msgVars, queueVars, roomVars, tapVars, segVars, ctVars, wkVars>>

\* handleNewDominantSpeaker's early return: the producer leads the list already
IsAlreadyTopSpeaker(list, pid) ==
    Len(list) > 0 /\ list[1] = pid

\* A handler that unshifts the id without splicing the found entry out
ListAfterUnshiftOnly(list, pid) ==
    IF IsAlreadyTopSpeaker(list, pid) THEN list ELSE <<pid>> \o list

\* The list after a dominant-speaker event: findIndex, return when the index
\* is 0, else splice the found entry out (if any) and unshift the id
ListAfterDominant(list, pid) ==
    IF IsAlreadyTopSpeaker(list, pid) THEN list ELSE SpeakerToFront(list, pid)

\* handleNewDominantSpeaker: the observer (which holds audio producers only)
\* reports a producer; when it leads the list already the handler returns,
\* else the list is reordered and a run starts on it
DominantEvent(pid) ==
    /\ runPc = "idle"
    /\ KeyOf(pid) = "audio"
    /\ producer[OwnerOf(pid)]["audio"]
    /\ speakerList' = ListAfterDominant(speakerList, pid)
    /\ IF IsAlreadyTopSpeaker(speakerList, pid)
          THEN UNCHANGED <<consumerPaused, enginePaused, runPc>>
          ELSE RunOps(speakerList')
    /\ UNCHANGED <<members, hasRoom, producer, associatedAudioPid,
                   associatedVideoPid, consumer, newTransportsByPeer,
                   closedConsumer, calledClosed>>
    /\ UNCHANGED <<sessionVars, msgVars, queueVars, roomVars, tapVars, segVars, ctVars, wkVars>>

NewDominantSpeaker(pid) ==
    /\ DominantEvent(pid)
    /\ UNCHANGED lastDominant

\* The same handler, with the event's producer id kept for inspection
NewDominantSpeakerSeen(pid) ==
    /\ DominantEvent(pid)
    /\ lastDominant' = pid

\* updateActiveSpeakers after Promise.all: the run returns its result map,
\* which the caller emits as newProducersToConsume
UpdateEnd ==
    /\ runPc = "ops"
    /\ runPc' = "idle"
    /\ newTransportsByPeer' = [c \in Peers |-> {}]
    /\ UNCHANGED <<members, hasRoom, producer, speakerList,
                   associatedAudioPid, associatedVideoPid, consumer, consumerPaused,
                   enginePaused, closedConsumer, calledClosed, lastDominant>>
    /\ UNCHANGED <<sessionVars, msgVars, queueVars, roomVars, tapVars, segVars, ctVars, wkVars>>

\* The same run with its result map recorded: newTransportsByPeer[socketId]
\* is newSpeakersToThisClient of every client of the room
UpdateNewSpeakers ==
    /\ runPc = "idle"
    /\ members # {}
    /\ RunOps(speakerList)
    /\ newTransportsByPeer' = [c \in Peers |->
           IF c \in members THEN NewSpeakers(c, ActiveSpeakers(speakerList)) ELSE {}]
    /\ UNCHANGED <<members, hasRoom, producer, speakerList, associatedAudioPid,
                   associatedVideoPid, consumer, closedConsumer, calledClosed, lastDominant>>
    /\ UNCHANGED <<sessionVars, msgVars, queueVars, roomVars, tapVars, segVars, ctVars, wkVars>>

\* The engine with the result maps of its runs, in a room no peer leaves
SpeakersNext ==
    \/ \E c \in Peers : AddClient(c)
    \/ \E c \in Peers, k \in Kinds : StartProducing(c, k)
    \/ \E c \in Peers, pid \in Pids : RequestConsumerTransport(c, pid)
    \/ \E c \in Peers, pid \in Pids, k \in Kinds : ConsumeMedia(c, pid, k)
    \/ UpdateNewSpeakers
    \/ UpdateEnd

\* The dominant-speaker handler in a room whose peers join, produce and leave
DominantNext ==
    \/ \E c \in Peers : AddClient(c)
    \/ \E c \in Peers : RemoveClient(c)
    \/ \E c \in Peers, k \in Kinds : StartProducing(c, k)
    \/ \E pid \in Pids : NewDominantSpeakerSeen(pid)
    \/ UpdateEnd

\* MediaService.unpauseConsumer({pid, kind}): the key is looked up like in
\* consumeMedia, the downstream transport whose consumer under that key has
\* producerId pid is searched for, and resume() is called on that consumer
\* without a test of consumer.closed (the answer is "consumerNotFound",
\* and nothing happens, when there is none)
UnpauseConsumer(c, pid, kind) ==
    /\ LET actualKind == ActualKind(pid, kind) IN
        /\ consumer[c][actualKind] = pid \/ closedConsumer[c][actualKind] = pid
        /\ IF consumer[c][actualKind] = pid
              THEN /\ consumerPaused' = [consumerPaused EXCEPT ![c][actualKind] = FALSE]
                   /\ UNCHANGED calledClosed
              ELSE /\ calledClosed' = TRUE
                   /\ UNCHANGED consumerPaused
    /\ UNCHANGED <<members, hasRoom, producer, speakerList, associatedAudioPid,
                   associatedVideoPid, consumer, runPc, enginePaused,
                   newTransportsByPeer, closedConsumer, lastDominant>>
    /\ UNCHANGED <<sessionVars, msgVars, queueVars, roomVars, tapVars, segVars, ctVars, wkVars>>

\* The clients' microphone and camera producers, their consumers and their
\* unpauseConsumer requests
UnpauseNext ==
    \/ \E c \in Peers : AddClient(c)
    \/ \E c \in Peers : RemoveClientClosing(c)
    \/ \E c \in Peers, k \in {"audio", "video"} : StartProducing(c, k)
    \/ \E c \in Peers, pid \in Pids : RequestConsumerTransport(c, pid)
    \/ \E c \in Peers, pid \in Pids, k \in Kinds : ConsumeMedia(c, pid, k)
    \/ \E c \in Peers, pid \in Pids, k \in Kinds : UnpauseConsumer(c, pid, k)

EngineNext ==
    \/ \E c \in Peers : AddClient(c)
    \/ \E c \in Peers : RemoveClient(c)
    \/ \E c \in Peers, k \in Kinds : StartProducing(c, k)
    \/ \E c \in Peers, pid \in Pids : RequestConsumerTransport(c, pid)
    \/ \E c \in Peers, pid \in Pids, k \in Kinds : ConsumeMedia(c, pid, k)
    \/ UpdateBegin
    \/ \E pid \in Pids : NewDominantSpeaker(pid)
    \/ UpdateEnd

\* ---------------------------------------------------------------------
\* TransportService.connectTransport
\* ---------------------------------------------------------------------

\* connectTransport calls followed
NumCalls == 3

Calls == 1..NumCalls

\* TransportRole
Roles == {"producer", "consumer"}

CtInit ==
    /\ ctExists = [r \in Roles |-> FALSE]
    /\ dtlsState = [r \in Roles |-> "new"]
    /\ workerConnected = [r \in Roles |-> FALSE]
    /\ connectCalls = [r \in Roles |-> 0]
    /\ ctPc = [k \in Calls |-> "idle"]
    /\ ctRole = [k \in Calls |-> "producer"]

\* handleTransportRequest: the WebRTC transport of the role is created
\* (dtlsState 'new') and stored on the client; one transport per role
CtCreate(r) ==
    /\ ~ctExists[r]
    /\ ctExists' = [ctExists EXCEPT ![r] = TRUE]
    /\ UNCHANGED <<dtlsState, workerConnected, connectCalls, ctPc, ctRole>>
    /\ UNCHANGED <<sessionVars, msgVars, queueVars, roomVars, tapVars, segVars, engVars, wkVars>>

\* The skip test of connectTransport
AlreadyConnecting(r) == dtlsState[r] \in {"connected", "connecting"}

\* connectTransport up to its await: transport lookup, the dtlsState test,
\* then transport.connect, whose request the worker answers in order of
\* arrival: it accepts the first and rejects any later one
CtStart(k, r) ==
    /\ ctPc[k] = "idle"
    /\ \A j \in Calls : j < k => ctPc[j] # "idle"
    /\ ctRole' = [ctRole EXCEPT ![k] = r]
    /\ IF ~ctExists[r]
          THEN /\ ctPc' = [ctPc EXCEPT ![k] = "error"]
               /\ UNCHANGED <<workerConnected, connectCalls>>
       ELSE IF AlreadyConnecting(r)
          THEN /\ ctPc' = [ctPc EXCEPT ![k] = "success"]
               /\ UNCHANGED <<workerConnected, connectCalls>>
       ELSE /\ connectCalls' = [connectCalls EXCEPT ![r] = @ + 1]
            /\ workerConnected' = [workerConnected EXCEPT ![r] = TRUE]
            /\ ctPc' = [ctPc EXCEPT ![k] =
                            IF workerConnected[r] THEN "rejected" ELSE "accepted"]
    /\ UNCHANGED <<ctExists, dtlsState>>
    /\ UNCHANGED <<sessionVars, msgVars, queueVars, roomVars, tapVars, segVars, engVars, wkVars>>

\* connectTransport after its await: "success", or the worker's error is
\* logged and rethrown
CtFinish(k) ==
    /\ ctPc[k] \in {"accepted", "rejected"}
    /\ ctPc' = [ctPc EXCEPT ![k] = IF ctPc[k] = "accepted" THEN "success" ELSE "error"]
    /\ UNCHANGED <<ctExists, dtlsState, workerConnected, connectCalls, ctRole>>
    /\ UNCHANGED <<sessionVars, msgVars, queueVars, roomVars, tapVars, segVars, engVars, wkVars>>

\* The worker's dtlsstatechange notification, once the remote endpoint
\* starts the handshake on a transport that holds DTLS parameters
DtlsChange(r) ==
    /\ ctExists[r]
    /\ workerConnected[r]
    /\ \/ dtlsState[r] = "new" /\ dtlsState' = [dtlsState EXCEPT ![r] = "connecting"]
       \/ dtlsState[r] = "connecting" /\ dtlsState' = [dtlsState EXCEPT ![r] = "connected"]
       \/ dtlsState[r] = "connecting" /\ dtlsState' = [dtlsState EXCEPT ![r] = "failed"]
    /\ UNCHANGED <<ctExists, workerConnected, connectCalls, ctPc, ctRole>>
    /\ UNCHANGED <<sessionVars, msgVars, queueVars, roomVars, tapVars, segVars, engVars, wkVars>>

ConnectNext ==
    \/ \E r \in Roles : CtCreate(r)
    \/ \E k \in Calls, r \in Roles : CtStart(k, r)
    \/ \E k \in Calls : CtFinish(k)
    \/ \E r \in Roles : DtlsChange(r)

\* ------------------------------------------------------------------------
\* Worker manager: load sampling and worker selection
\* ------------------------------------------------------------------------

NumWorkers == 2

Workers == 1..NumWorkers

\* Number.POSITIVE_INFINITY, above every score a sample can compute
Infinity == 1000000

\* WorkerRecord.score is undefined until the second successful sample
NoScore == -1

\* The score weights and the overload threshold of the constructor, in
\* thousandths
weightCpu == 800

weightRouters == 15

weightTransports == 10

overloadScoreThreshold == 800

\* The loads a sample may see: cpuPercent 0 or 1, up to MaxLoad routers and
\* transports
MaxLoad == 1

Loads == 0..MaxLoad

\* sampleOne: the composite score
Score(cpu, routers, transports) ==
    weightCpu * cpu + weightRouters * routers + weightTransports * transports

\* After start(): every slot holds an online record whose immediate first
\* sample set `last` and no score yet
WkInit ==
    /\ wOnline = [w \in Workers |-> TRUE]
    /\ wScore = [w \in Workers |-> NoScore]
    /\ wLast = [w \in Workers |-> TRUE]
    /\ picked = None
    /\ pickTick = FALSE

\* sampleOne on an online record, getResourceUsage resolved: the score is
\* computed when an earlier sample exists, and `last` is set
SampleOne(w) ==
    /\ wOnline[w]
    /\ \E cpu \in Loads, r \in Loads, t \in Loads :
        wScore' = IF wLast[w] THEN [wScore EXCEPT ![w] = Score(cpu, r, t)] ELSE wScore
    /\ wLast' = [wLast EXCEPT ![w] = TRUE]
    /\ UNCHANGED <<wOnline, picked, pickTick>>
    /\ UNCHANGED <<sessionVars, msgVars, queueVars, roomVars, tapVars, segVars, engVars,
                   ctVars>>

\* sampleOne on an online record, getResourceUsage rejected
SampleFails(w) ==
    /\ wOnline[w]
    /\ wScore' = [wScore EXCEPT ![w] = Infinity]
    /\ UNCHANGED <<wOnline, wLast, picked, pickTick>>
    /\ UNCHANGED <<sessionVars, msgVars, queueVars, roomVars, tapVars, segVars, engVars,
                   ctVars>>

\* The worker's 'died' event
WorkerDied(w) ==
    /\ wOnline[w]
    /\ wOnline' = [wOnline EXCEPT ![w] = FALSE]
    /\ UNCHANGED <<wScore, wLast, picked, pickTick>>
    /\ UNCHANGED <<sessionVars, msgVars, queueVars, roomVars, tapVars, segVars, engVars,
                   ctVars>>

\* respawn -> spawnWorker: a fresh record replaces the one in the slot
Respawn(w) ==
    /\ ~wOnline[w]
    /\ wOnline' = [wOnline EXCEPT ![w] = TRUE]
    /\ wScore' = [wScore EXCEPT ![w] = NoScore]
    /\ wLast' = [wLast EXCEPT ![w] = FALSE]
    /\ UNCHANGED <<picked, pickTick>>
    /\ UNCHANGED <<sessionVars, msgVars, queueVars, roomVars, tapVars, segVars, engVars,
                   ctVars>>

\* this.workers.filter(w => w.online), in slot order
Live == SelectSeq([w \in Workers |-> w], LAMBDA w : wOnline[w])

\* isOverloaded: (w.score ?? 0) >= overloadScoreThreshold || !w.online
IsOverloaded(w) ==
    (IF wScore[w] = NoScore THEN 0 ELSE wScore[w]) >= overloadScoreThreshold
        \/ ~wOnline[w]

\* score ?? Infinity
ScoreOrInfinity(w) == IF wScore[w] = NoScore THEN Infinity ELSE wScore[w]

\* leastLoaded: arr.reduce((best, cur) => cs < bs ? cur : best)
RECURSIVE Reduce(_, _, _)
Reduce(arr, i, best) ==
    IF i > Len(arr) THEN best
    ELSE Reduce(arr, i + 1,
                IF ScoreOrInfinity(arr[i]) < ScoreOrInfinity(best) THEN arr[i] ELSE best)

LeastLoaded(arr) == Reduce(arr, 2, arr[1])

\* pickWorkerForRoom for a roomId whose hash32 is h: it throws without a
\* live worker; otherwise the sticky choice, or the least loaded one when
\* that is overloaded
PickWorkerForRoom(h) ==
    /\ pickTick' = ~pickTick
    /\ picked' = IF Len(Live) = 0 THEN None
                 ELSE LET chosen == Live[(h % Len(Live)) + 1]
                      IN IF IsOverloaded(chosen) THEN LeastLoaded(Live) ELSE chosen
    /\ UNCHANGED <<wOnline, wScore, wLast>>
    /\ UNCHANGED <<sessionVars, msgVars, queueVars, roomVars, tapVars, segVars, engVars,
                   ctVars>>

\* pickLeastLoaded
PickLeastLoaded ==
    /\ pickTick' = ~pickTick
    /\ picked' = IF Len(Live) = 0 THEN None ELSE LeastLoaded(Live)
    /\ UNCHANGED <<wOnline, wScore, wLast>>
    /\ UNCHANGED <<sessionVars, msgVars, queueVars, roomVars, tapVars, segVars, engVars,
                   ctVars>>

\* The hash values of the room ids tried
Hashes == 0..(NumWorkers - 1)

WorkerNext ==
    \/ \E w \in Workers : SampleOne(w)
    \/ \E w \in Workers : SampleFails(w)
    \/ \E w \in Workers : WorkerDied(w)
    \/ \E w \in Workers : Respawn(w)
    \/ \E h \in Hashes : PickWorkerForRoom(h)
    \/ PickLeastLoaded

Init ==
    /\ SessionInit /\ MsgInit /\ QueueInit /\ RoomInit
    /\ TapInit /\ SegInit /\ EngInit /\ CtInit /\ WkInit

\* The auth timer's delay (AUTH_TIMEOUT_MS) passes for socket s. The callback
\* runs only if the timer is still armed: a socket not marked authenticated
\* is sent error:auth AUTH_TIMEOUT and disconnected.
ThirtySecondsPass(s) ==
    /\ hPc[s] # "none"
    /\ ~elapsed[s]
    /\ elapsed' = [elapsed EXCEPT ![s] = TRUE]
    /\ authTimer' = [authTimer EXCEPT ![s] = FALSE]
    /\ IF authTimer[s] /\ ~authenticated[s]
          THEN /\ timeoutSent' = [timeoutSent EXCEPT ![s] = @ + 1]
               /\ LET d == DisconnectEffect(connected, dPc, s) IN
                    /\ connected' = d[1]
                    /\ dPc' = d[2]
          ELSE UNCHANGED <<timeoutSent, connected, dPc>>
    /\ UNCHANGED <<userSockets, socketUser, hPc, hList, hCur, hUser, hExisting, dUser>>
    /\ UNCHANGED <<hEarlier, authenticated, noSub, msgVars, queueVars, roomVars, extVars>>

SessionNext ==
    \E s \in Sockets :
        \/ Connect(s)
        \/ HsReadSockets(s)
        \/ HsUnmapGet(s)
        \/ HsUnmapExec(s)
        \/ HsMapRead(s)
        \/ HsMapExec(s)
        \/ HsRooms(s)
        \/ ClientDisconnect(s)
        \/ DiscGet(s)
        \/ DiscExec(s)

AuthNext ==
    \/ SessionNext
    \/ \E s \in Sockets : ThirtySecondsPass(s)

SpecSession == Init /\ [][SessionNext]_vars

SpecMsg == Init /\ [][MsgNext]_vars

SpecQueue == Init /\ [][QueueNext]_vars

\* The queue manager when every task that was started terminates: the
\* continuation of processNext after `await task()` is eventually run
SpecQueueLive ==
    Init /\ [][QueueNext]_vars /\ \A q \in QueueIds : WF_vars(TaskFinish(q))

SpecRoom == Init /\ [][RoomNext]_vars

SpecMedia == Init /\ [][MediaNext]_vars

SpecTap == Init /\ [][TapNext]_vars

SpecSeg == Init /\ [][SegNext]_vars

SpecEngine == Init /\ [][EngineNext]_vars

SpecConnect == Init /\ [][ConnectNext]_vars

SpecTransport == Init /\ [][TransportNext]_vars

SpecPassword == Init /\ [][PasswordNext]_vars

SpecWorker == Init /\ [][WorkerNext]_vars

SpecRejoin == Init /\ [][RejoinNext]_vars

SpecAuth == Init /\ [][AuthNext]_vars

SpecSpeakers == Init /\ [][SpeakersNext]_vars

SpecUnpause == Init /\ [][UnpauseNext]_vars

SpecDominant == Init /\ [][DominantNext]_vars

\* ------------------------------------------------------------------------
\* C1: for every user u, user:sockets:{u} holds at most one socket id at
\* every instant, in every interleaving of handshakes and disconnects.
\* ------------------------------------------------------------------------
C1_AtMostOneSocketPerUser ==
    \A u \in Users : Cardinality(userSockets[u]) <= 1

\* ------------------------------------------------------------------------
\* C2: for every message id m, contract:message.new is broadcast at most
\* once, whatever jobId each send names and however the sends interleave.
\* ------------------------------------------------------------------------
C2_NewBroadcastAtMostOnce ==
    \A m \in Msgs : newCount[m] <= 1

\* ------------------------------------------------------------------------
\* C3: for every lock resource, at most one task started through withLock is
\* running at any instant, also after a lease expired or its extension failed.
\* ------------------------------------------------------------------------
C3_OneWithLockTaskPerResource ==
    \A j \in Jobs :
        Cardinality({s \in Sends : /\ sVariant[s] = "with"
                                   /\ sJob[s] = j
                                   /\ sPc[s] \in TaskRunning}) <= 1

\* ------------------------------------------------------------------------
\* C6: for every message id m, queueMessage returns isDuplicate = false for
\* at most one call; every other call, later or concurrent, is a duplicate.
\* ------------------------------------------------------------------------
C6_OneFreshEnqueuePerMessage ==
    \A m \in Msgs : freshCount[m] <= 1

\* ------------------------------------------------------------------------
\* C4: for every jobId at most one task submitted through
\* MessageTaskQueueManager.enqueue is executing at any time, in every
\* interleaving of enqueue, removeJob and idle-sweep calls.
\* ------------------------------------------------------------------------
C4_OneRunningTaskPerJob ==
    \A j \in Jobs :
        Cardinality({t \in Tasks : tJob[t] = j /\ tState[t] = "running"}) <= 1

C7_SpeakersAreOpenProducersOfPeers ==
    rooms # None =>
        \A i \in 1..Len(activeSpeakerList[rooms]) :
            \E c \in Peers :
                /\ clients[rooms][c] > 0
                /\ audio[c] = activeSpeakerList[rooms][i]
                /\ pState[activeSpeakerList[rooms][i]] = "open"

\* ------------------------------------------------------------------------
\* C8: for every room, no two runs of updateActiveSpeakers overlap in time,
\* whether they are triggered by startProducing, by a dominant-speaker event
\* or by the periodic refresh.
\* ------------------------------------------------------------------------
C8_EngineRunsDoNotOverlap ==
    \A o \in Rooms : engineRuns[o] <= 1

\* ------------------------------------------------------------------------
\* C9: whenever a leave removes the last peer of a room, then on completion
\* of that leave the room's router is closed and the room is no longer in
\* the registry.
\* ------------------------------------------------------------------------
C9_LastLeaveClosesRoom ==
    [][\A c \in Peers :
          (/\ lPc[c] # "idle"
           /\ lPc'[c] = "idle"
           /\ clients[lRoom[c]][c] > 0
           /\ NoClients(clients'[lRoom[c]]))
              => /\ rooms' # lRoom[c]
                 /\ router[lRoom[c]] \notin routerOpen']_vars

\* ------------------------------------------------------------------------
\* C10: every room in the registry that has at least one peer has a non-null
\* open router, also when a second joinRoom arrives while the first joiner's
\* room creation is awaiting and when a room-creating join failed part-way.
\* ------------------------------------------------------------------------
C10_RoomWithPeersHasRouter ==
    (rooms # None /\ ~NoClients(clients[rooms]))
        => (router[rooms] # None /\ router[rooms] \in routerOpen)

\* The ports a participant's side-tap holds: the pair getAvailablePortPair
\* returned to a start call that is still setting the session up, and the
\* pair of the registered session
HeldPorts(p) ==
    (IF stPc[p] = "setup" THEN {stRtp[p], stRtcp[p]} ELSE {}) \cup
    (IF rtpSessions[p] THEN {sessRtp[p], sessRtcp[p]} ELSE {})

\* C11: the port pairs handed to side-tap sessions that are live at the same
\* time are pairwise disjoint.
C11_LivePortPairsDisjoint ==
    \A p \in Taps, q \in Taps :
        p # q => HeldPorts(p) \cap HeldPorts(q) = {}

\* C12: when a stopTranscription call completes, both ports of the session
\* it stopped are in the free pool and no other session holds them.
C12_StopReturnsBothPorts ==
    [][\A k \in Stops :
          (spPc[k] = "unlink" /\ spPc'[k] = "idle")
              => /\ spRtcp[k] = spRtp[k] + 1
                 /\ {spRtp[k], spRtcp[k]} \subseteq availablePorts'
                 /\ \A q \in Taps :
                       (IF stPc'[q] = "setup" THEN {stRtp'[q], stRtcp'[q]} ELSE {})
                       \cap {spRtp[k], spRtcp[k]} = {}
                 /\ \A q \in Taps :
                       (IF rtpSessions'[q] THEN {sessRtp'[q], sessRtcp'[q]} ELSE {})
                       \cap {spRtp[k], spRtcp[k]} = {}]_vars

\* C13: every segment index of a side-tap session is handed to the
\* transcription worker at most once, failed transcriptions included.
C13_SegmentHandedAtMostOnce ==
    \A p \in Taps : \A i \in Segs : handed[p][i] <= 1

\* C14: no run of the Active-Speaker Engine pauses a video producer or a
\* video consumer.
C14_EngineNeverPausesVideo == "video" \notin enginePaused

\* A run has paused audio while a member's downstream.audio holds a consumer
\* of a video producer and a member produces video
C14_Witness ==
    /\ "audio" \in enginePaused
    /\ \E c \in members : producer[c]["video"]
    /\ \E c \in members :
          /\ consumer[c]["audio"] # None
          /\ MediaKindOf(KeyOf(consumer[c]["audio"])) = "video"

\* C15: once a run of the engine has applied its operations to the list it
\* sliced, every consumer a room member has of a producer ranked at position
\* maxActiveSpeakers or later (audio or screenAudio) is paused.
C15_MutedConsumersPaused ==
    [][(runPc = "idle" /\ runPc' = "ops")
          => \A p \in members' : \A pid \in MutedSpeakers(speakerList') :
                \A k \in Kinds :
                    consumer'[p][k] = pid => consumerPaused'[p][k]]_vars

\* C16: repeated connectTransport calls for one transport, sequential or
\* overlapping, call the transport's connect at most once.
C16_ConnectIssuedOnce == \A r \in Roles : connectCalls[r] <= 1

\* C17: when a socket S2 whose user had an earlier socket S1 still connected
\* completes its handshake, the user's socket set is {S2}, S1 has been
\* disconnected and socket:user:S1 is gone.
C17_EarlierSocketEvicted ==
    [][\A s2 \in Sockets :
          (hPc[s2] # "done" /\ hPc'[s2] = "done" /\ connected'[s2])
             => \A s1 \in hEarlier[s2] :
                   /\ userSockets'[SubOf(s2)] = {s2}
                   /\ ~connected'[s1]
                   /\ socketUser'[s1] = None]_vars

C19_AbortedTaskFails ==
    [][\A s \in Sends :
          (lockAborted[s] /\ sPc[s] \in TaskRunning /\ sPc'[s] # sPc[s])
             => /\ sPc'[s] \notin TaskRunning
                /\ sAck'[s] \notin {"success", "duplicate", "ok"}]_vars

\* C20: a tryWithLock handler (send, pin, unpin, read) whose lock request
\* finds the jobId lock held returns RESOURCE_BUSY at once, and the step
\* enqueues nothing and broadcasts nothing.
C20_BusyIsRefusedWithoutEffect ==
    [][\A s \in Sends :
          (/\ sVariant[s] = "try" /\ sPc[s] = "acquire"
           /\ lockHolder[sJob[s]] # None /\ sPc'[s] # "acquire")
             => /\ sPc'[s] = "done"
                /\ sAck'[s] = "RESOURCE_BUSY"
                /\ bullJobs' = bullJobs
                /\ newCount' = newCount
                /\ emitCount' = emitCount]_vars

\* A handler has returned RESOURCE_BUSY while another handler's task holds
\* a jobId lock
C20_Witness ==
    /\ \E s \in Sends : sPc[s] = "done" /\ sAck[s] = "RESOURCE_BUSY"
    /\ \E t \in Sends : sPc[t] \in TaskRunning \cup {"emit"} /\ lockHolder[sJob[t]] = t

\* C21: a peer occurs at most once in the clients arrays of all Room objects
\* taken together, whatever joinRoom and leave calls its socket has made.
C21_PeerListedAtMostOnce ==
    \A c \in Peers :
        Cardinality({o \in Rooms : clients[o][c] > 0}) <= 1
            /\ \A o \in Rooms : clients[o][c] <= 1


\* C22: every socket marked authenticated carries a user with a non-empty
\* sub, and a token that verifies but has no sub claim yields neither an
\* authenticated socket nor a session-registry binding.
C22_AuthenticatedHasSub ==
    \A s \in Sockets :
        /\ authenticated[s] => ~noSub[s]
        /\ socketUser[s] # UndefinedSub
        /\ s \notin userSockets[UndefinedSub]


C30_NoKeyAfterDisconnect ==
    \A s \in Sockets :
        (~connected[s] /\ hPc[s] = "done" /\ dPc[s] = "done")
            => /\ socketUser[s] = None
               /\ \A u \in SubKeys : s \notin userSockets[u]


\* Sum of tCounted over the peers
RECURSIVE CountedSum(_)
CountedSum(S) ==
    IF S = {} THEN 0
    ELSE LET c == CHOOSE x \in S : TRUE IN tCounted[c] + CountedSum(S \ {c})

\* C23: a leave takes from the worker's transports counter exactly what was
\* added to it for the leaving peer, so the counter always equals the
\* increments made for peers that have not left since.
C23_LeaveReturnsTransports == wTransports = CountedSum(Peers)


\* C24: a joinRoom on a room that exists and has a password, presenting a
\* different password, is answered 'Invalid room password', broadcasts no
\* newParticipant and leaves every peer list as it was.
C24_WrongPasswordRefused ==
    [][\A c \in Peers, pw \in Passwords \cup {NoPassword} :
          (/\ JoinWith(c, pw)
           /\ rooms # None
           /\ rPassword[rooms] # NoPassword
           /\ rPassword[rooms] # pw)
              => /\ jError'[c]
                 /\ clients' = clients
                 /\ npToggle' = npToggle
                 /\ cRoom' = cRoom]_vars

\* A peer was refused with a wrong password and is in no peer list
C24_Witness ==
    \E c \in Peers :
        /\ jError[c]
        /\ rooms # None
        /\ rPassword[rooms] # NoPassword
        /\ \A o \in Rooms : clients[o][c] = 0
        /\ \E d \in Peers \ {c} : clients[rooms][d] > 0


\* C26: no pickWorkerForRoom or pickLeastLoaded call returns a worker whose
\* score is +Infinity (its latest CPU sample failed).
C26_FailedWorkerNotPicked ==
    [][(pickTick' # pickTick /\ picked' # None) => wScore[picked'] # Infinity]_vars


\* No two entries of the sorted pool are consecutive ports
NoConsecutivePair(S) == \A x \in S : x + 1 \notin S

\* C27: a getAvailablePortPair call that starts on a pool without a pair of
\* consecutive ports fails, and no step of a call other than its successful
\* return moves a port to the used set: a failing call allocates nothing.
C27_NoPartialAllocation ==
    [][\A p \in Taps :
          /\ (stPc[p] = "dir" /\ stPc'[p] # "dir" /\ NoConsecutivePair(availablePorts))
                => (stPc'[p] = "idle" /\ usedPorts' = usedPorts)
          /\ (stPc[p] \in {"dir", "probe1", "probe2"} /\ stPc'[p] # stPc[p]
                 /\ stPc'[p] # "setup")
                => usedPorts' = usedPorts]_vars

\* Every call has returned, probes removed ports from the pool until no
\* consecutive pair was left, and no port is in the used set
C27_Witness ==
    /\ \A p \in Taps : stPc[p] = "idle" /\ ~rtpSessions[p]
    /\ availablePorts # Ports
    /\ availablePorts # {}
    /\ NoConsecutivePair(availablePorts)
    /\ usedPorts = {}


\* C28: a handleLeaveRoom run of a socket that an earlier run already removed
\* from its room's peer list neither cleans up nor unregisters a room: the
\* registry entry, the routers and the observers stay as they were.
C28_SecondLeaveKeepsRegistry ==
    [][\A c \in Peers :
          (/\ lPc[c] \in {"stt", "bcast"}
           /\ lPc'[c] = "idle"
           /\ clients[lRoom[c]][c] = 0)
              => /\ rooms' = rooms
                 /\ routerOpen' = routerOpen
                 /\ observerOpen' = observerOpen]_vars


\* C29: every updateActiveSpeakers and newProducersToConsume emission is
\* made while the emitter holds the room-id lock.
C29_EmissionsUnderLock == ~emittedUnlocked

\* C31: at every instant the free set and the used set of the side-tap port
\* pool are disjoint and every port of the used set belongs to exactly one
\* live side-tap (a registered session, or a start call that still sets its
\* session up); a start that failed after its pair was allocated leaves no
\* port in the used set.
C31_UsedPortsBelongToLiveTaps ==
    /\ availablePorts \cap usedPorts = {}
    /\ \A port \in usedPorts :
          Cardinality({p \in Taps : port \in HeldPorts(p)}) = 1

\* C32: every media router and active-speaker observer created for a room is
\* closed once that room is no longer in the registry, and once the joinRoom
\* that created a room has finished, every open router of the room is the
\* one the room references.
C32_NoRouterOutlivesItsRoom ==
    /\ \A r \in routerOpen \cup observerOpen : rooms = RoomOf(r)
    /\ \A r \in routerOpen :
          (\A c \in Peers : jRoom[c] # RoomOf(r)) => router[RoomOf(r)] = r

\* C33: the Active-Speaker Engine never puts a producer id owned by peer p
\* into p's own list of pids needing a new transport, for audio and
\* screenAudio producers alike.
C33_NoOwnPidInNewSpeakers ==
    \A c \in Peers : \A pid \in newTransportsByPeer[c] : OwnerOf(pid) # c

\* C34: closeProducers issued by peer c affects only producers owned by c:
\* for a requested id that c does not own, no producer is closed and the id
\* is not removed from activeSpeakerList.
C34_CloseAffectsOnlyOwnProducers ==
    [][\A c \in Peers, p \in Producers :
          (CloseProducers(c, p) /\ pOwner[p] # c)
              => (pState' = pState /\ activeSpeakerList' = activeSpeakerList)]_vars

C36_LastProcessedIsMaxFinished ==
    [][\A q \in QueueIds :
          (qCurrent[q] # None /\ tState'[qCurrent[q]] = "settled")
              => qLast'[q] = Max(qLast[q], tTs[qCurrent[q]])]_vars

\* The number of entries of a list equal to pid
Occurrences(list, pid) ==
    Cardinality({i \in 1..Len(list) : list[i] = pid})

C38_AcceptedTasksStartAndSettle ==
    /\ \A t \in Tasks : (tState[t] = "waiting") ~> (tState[t] \in {"running", "settled"})
    /\ \A t \in Tasks : (tState[t] \in {"waiting", "running"}) ~> (tState[t] = "settled")
    /\ [][\A t \in Tasks :
             /\ (tState[t] = "settled" => tState'[t] = "settled")
             /\ (tState[t] # "settled" /\ tState'[t] = "settled" => tState[t] = "running")
             /\ (tState[t] \in {"waiting", "running"} => tState'[t] # "new")]_vars

\* C38 witness: a queue object that is no longer in the manager's map has
\* resolved a task and runs the next one, with a further task still waiting
C38_Witness ==
    \E q \in 1..qMade :
        /\ qMap[qJob[q]] # q
        /\ qLast[q] > 0
        /\ qCurrent[q] # None
        /\ tState[qCurrent[q]] = "running"
        /\ qItems[q] # <<>>

\* No joinRoom or leave handler is between two of its steps
NoJoinOrLeaveInFlight ==
    \A c \in Peers : jPc[c] = "idle" /\ lPc[c] = "idle"

\* The rooms in the registry, all of them created on the one worker
RegisteredRooms == IF rooms = None THEN 0 ELSE 1

\* C39: once the joins and leaves issued so far have returned, the worker's
\* routers counter equals the number of rooms in the registry that were
\* created on it
C39_RoutersCountsRegisteredRooms ==
    NoJoinOrLeaveInFlight => wRouters = RegisteredRooms

\* C40: in every registered room with clients, the observer that
\* Client.addProducer adds audio producers to (room.activeSpeakerObserver)
\* is an observer whose dominantspeaker events reach handleNewDominantSpeaker
C40_ProducersObserverCarriesHandler ==
    \A o \in Rooms :
        (rooms = o /\ ~NoClients(clients[o]) /\ activeSpeakerObserver[o] # None)
            => activeSpeakerObserver[o] \in handled

====
